---------------------------- MODULE Spec2Model ----------------------------
(***************************************************************************)
(* A model of the natural-language-to-SQL pipeline of server.py: the       *)
(* catalog listing, sample extraction, prompt building, SQL generation and *)
(* sanitization, query execution and summarization of one                  *)
(* smart_analyze_question request, the connection handling of              *)
(* execute_query, and the process-wide collation cache.                    *)
(*                                                                         *)
(* Text is modelled as a sequence of one-character strings, so that the    *)
(* string operations of the code (strip, split, startswith, upper,         *)
(* replace, the regular expressions) are computed as Python computes them. *)
(***************************************************************************)
EXTENDS Integers, Sequences, FiniteSets, TLC

(***************************************************************************)
(* Bounds of the model.                                                    *)
(***************************************************************************)
\* the largest row limit a caller supplies
MaxLimit == 2
\* the largest number of rows the database holds for a generated query
MaxRows == 3
\* the largest number of connections a request may leave open behind it
MaxLeaked == 1
\* the number of threads that call get_database_collation concurrently
MaxThreads == 2
\* the number of get_database_collation calls each thread makes
MaxCalls == 2

\* the most columns of a table that inspect_table looks at
MaxColumns == 2

\* the most markers and prefixes stacked in front of a text given to
\* clean_generated_sql
MaxStack == 2

(***************************************************************************)
(* Python's str operations on sequences of characters.                     *)
(***************************************************************************)
Lowers == <<"a","b","c","d","e","f","g","h","i","j","k","l","m",
            "n","o","p","q","r","s","t","u","v","w","x","y","z">>

Uppers == <<"A","B","C","D","E","F","G","H","I","J","K","L","M",
            "N","O","P","Q","R","S","T","U","V","W","X","Y","Z">>

\* the characters str.strip() removes and the pattern's whitespace class matches
Whitespace == {" ", "\n", "\t"}

UpperChar(c) ==
    IF \E i \in 1..26 : Lowers[i] = c
    THEN Uppers[CHOOSE i \in 1..26 : Lowers[i] = c]
    ELSE c

LowerChar(c) ==
    IF \E i \in 1..26 : Uppers[i] = c
    THEN Lowers[CHOOSE i \in 1..26 : Uppers[i] = c]
    ELSE c

\* str.upper()
Upper(s) == [i \in 1..Len(s) |-> UpperChar(s[i])]

\* str.lower()
Lower(s) == [i \in 1..Len(s) |-> LowerChar(s[i])]

\* s[i:] with i counted from 0, as Python slices
From(s, i) == SubSeq(s, i + 1, Len(s))

\* s[:n]
Take(s, n) == SubSeq(s, 1, IF n < Len(s) THEN n ELSE Len(s))

\* str.startswith
StartsWith(s, p) == Len(p) <= Len(s) /\ SubSeq(s, 1, Len(p)) = p

\* the 1-based index of the first occurrence of pat in s, 0 when there is none
Find(s, pat) ==
    LET hits == {i \in 1..(Len(s) - Len(pat) + 1) : SubSeq(s, i, i + Len(pat) - 1) = pat}
    IN  IF hits = {} THEN 0 ELSE CHOOSE i \in hits : \A j \in hits : i <= j

\* pat in s
Contains(s, pat) == Find(s, pat) # 0

RECURSIVE Replace(_, _, _, _)
\* str.replace(old, new, count): the first count occurrences, left to right
Replace(s, old, new, count) ==
    IF count = 0 THEN s
    ELSE LET i == Find(s, old)
         IN  IF i = 0 THEN s
             ELSE SubSeq(s, 1, i - 1) \o new
                  \o Replace(SubSeq(s, i + Len(old), Len(s)), old, new, count - 1)

\* str.replace(old, new): every occurrence
ReplaceAll(s, old, new) == Replace(s, old, new, Len(s))

RECURSIVE LStripSet(_, _)
LStripSet(s, cs) ==
    IF s # <<>> /\ Head(s) \in cs THEN LStripSet(Tail(s), cs) ELSE s

RECURSIVE RStripSet(_, _)
\* str.rstrip(chars)
RStripSet(s, cs) ==
    IF s # <<>> /\ s[Len(s)] \in cs THEN RStripSet(SubSeq(s, 1, Len(s) - 1), cs) ELSE s

\* str.strip()
Strip(s) == RStripSet(LStripSet(s, Whitespace), Whitespace)

RECURSIVE Split(_, _)
\* str.split(sep) for a one-character separator
Split(s, sep) ==
    LET i == Find(s, <<sep>>)
    IN  IF i = 0 THEN <<s>>
        ELSE <<SubSeq(s, 1, i - 1)>> \o Split(SubSeq(s, i + 1, Len(s)), sep)

RECURSIVE Join(_, _)
\* sep.join(parts)
Join(parts, sep) ==
    IF parts = <<>> THEN <<>>
    ELSE IF Len(parts) = 1 THEN parts[1]
    ELSE parts[1] \o <<sep>> \o Join(Tail(parts), sep)

\* the decimal digits of a natural number: f"{n}"
Digits == <<"0","1","2","3","4","5","6","7","8","9">>

RECURSIVE Str(_)
Str(n) == IF n < 10 THEN <<Digits[n + 1]>> ELSE Str(n \div 10) \o <<Digits[(n % 10) + 1]>>

(***************************************************************************)
(* Words of the generated text.                                            *)
(***************************************************************************)
SELECT == <<"S","E","L","E","C","T">>
TOP == <<"T","O","P">>
FROM == <<"F","R","O","M">>
\* the backtick character, which a TLA+ string cannot hold, is written as a name
Backtick == "<backtick>"

FENCE == <<Backtick, Backtick, Backtick>>
INSUFFICIENT_DATA ==
    <<"I","N","S","U","F","F","I","C","I","E","N","T","_","D","A","T","A">>

(***************************************************************************)
(* clean_generated_sql                                                     *)
(***************************************************************************)
\* lines 109-111: a text opening with a fence loses its first and last line
StripFence(sql) ==
    IF StartsWith(sql, FENCE)
    THEN LET lines == Split(sql, "\n")
         IN  IF Len(lines) > 2
             THEN Join(SubSeq(lines, 2, Len(lines) - 1), "\n")
             ELSE ReplaceAll(sql, FENCE, <<>>)
    ELSE sql

prefixes == << <<Backtick,Backtick,Backtick,"s","q","l">>, <<"s","q","l",":">>,
               <<"S","Q","L",":">>, <<"Q","u","e","r","y",":">> >>

RECURSIVE StripPrefixes(_, _)
\* lines 114-116: one pass over the prefixes, in order
StripPrefixes(sql, ps) ==
    IF ps = <<>> THEN sql
    ELSE StripPrefixes(
             IF StartsWith(Lower(sql), Lower(Head(ps)))
             THEN Strip(From(sql, Len(Head(ps))))
             ELSE sql,
             Tail(ps))

\* the character class of the pattern: a letter, an underscore or a square bracket
IsNameChar(c) ==
    \/ \E i \in 1..26 : c = Lowers[i] \/ c = Uppers[i]
    \/ c \in {"_", "[", "]"}

\* the re.match of line 123, letter case ignored: a name character first, then
\* FROM followed by a whitespace character, with no line break before FROM
MatchesColsFrom(sql) ==
    /\ sql # <<>>
    /\ IsNameChar(sql[1])
    /\ \E i \in 2..(Len(sql) - 4) :
          /\ Upper(SubSeq(sql, i, i + 3)) = FROM
          /\ sql[i + 4] \in Whitespace
          /\ \A j \in 1..(i - 1) : sql[j] # "\n"

\* lines 120-124: SELECT is put before a text that begins with TOP or looks like
\* "<cols> FROM ..."
FixPrefix(sql) ==
    LET sql_upper == Strip(Upper(sql))
    IN  IF StartsWith(sql_upper, TOP \o <<" ">>) /\ ~Contains(Take(sql_upper, 10), SELECT)
        THEN SELECT \o <<" ">> \o sql
        ELSE IF MatchesColsFrom(sql) /\ ~StartsWith(sql_upper, SELECT)
        THEN SELECT \o <<" ">> \o sql
        ELSE sql

clean_generated_sql(sql_text) ==
    FixPrefix(RStripSet(Strip(StripPrefixes(StripFence(Strip(sql_text)), prefixes)), {Backtick}))

(***************************************************************************)
(* The warehouse and the LLM, as the code sees them.                       *)
(***************************************************************************)
\* Python's None, as a text no string is equal to
None == <<"<None>">>

Unknown == <<"U","n","k","n","o","w","n">>

Latin1_General_CI_AS ==
    <<"L","a","t","i","n","1","_","G","e","n","e","r","a","l","_","C","I","_","A","S">>

Latin1_General_CS_AS ==
    <<"L","a","t","i","n","1","_","G","e","n","e","r","a","l","_","C","S","_","A","S">>

dbo == <<"d","b","o">>

\* the base tables the warehouse may hold, with their columns
DeviceTable ==
    [schema |-> dbo, name |-> <<"t">>, type |-> "BASE TABLE",
     columns |-> << [COLUMN_NAME |-> "DeviceID", DATA_TYPE |-> "int", IS_NULLABLE |-> "NO"],
                    [COLUMN_NAME |-> "Device Name", DATA_TYPE |-> "nvarchar", IS_NULLABLE |-> "YES"] >>]

ExportTable ==
    [schema |-> dbo, name |-> <<"a",".","b">>, type |-> "BASE TABLE",
     columns |-> << [COLUMN_NAME |-> "Count", DATA_TYPE |-> "int", IS_NULLABLE |-> "YES"] >>]

\* what INFORMATION_SCHEMA.TABLES may hold, in the order of the metadata query
Catalogs == { <<>>, <<DeviceTable>>, <<DeviceTable, ExportTable>> }

\* [schema].[table_name], the format of lines 171, 173, 183 and 347
Bracketed(schema, name) == <<"[">> \o schema \o <<"]", ".", "[">> \o name \o <<"]">>

NoQuery == [kind |-> "none", sql |-> <<>>, schema |-> <<>>, table |-> <<>>]

MetaQuery == [kind |-> "tables", sql |-> <<>>, schema |-> <<>>, table |-> <<>>]

ProbeQuery(schema, name) ==
    [kind |-> "probe", sql |-> <<>>, schema |-> schema, table |-> name]

ColumnsQuery(schema, name) ==
    [kind |-> "columns", sql |-> <<>>, schema |-> schema, table |-> name]

SampleQuery(schema, name) ==
    [kind |-> "sample", sql |-> <<>>, schema |-> schema, table |-> name]

UniqueQuery(schema, name) ==
    [kind |-> "unique", sql |-> <<>>, schema |-> schema, table |-> name]

CollationQuery == [kind |-> "collation", sql |-> <<>>, schema |-> <<>>, table |-> <<>>]

GeneratedQuery(sql) == [kind |-> "generated", sql |-> sql, schema |-> <<>>, table |-> <<>>]

IsDigit(c) == \E i \in 1..10 : Digits[i] = c

RECURSIVE ParseNat(_, _)
\* the number the leading digits of s spell, continuing from acc
ParseNat(s, acc) ==
    IF s # <<>> /\ IsDigit(Head(s))
    THEN ParseNat(Tail(s), 10 * acc + (CHOOSE d \in 0..9 : Digits[d + 1] = Head(s)))
    ELSE acc

NoBound == 0 - 1

\* the n of a TOP n clause that directly follows the leading SELECT of a statement
\* (T-SQL keywords in any letter case), NoBound when there is none
TopBound(sql) ==
    LET u == Upper(sql)
        afterSelect == LStripSet(From(u, Len(SELECT)), Whitespace)
        afterTop == LStripSet(From(afterSelect, Len(TOP)), Whitespace)
    IN  IF /\ StartsWith(u, SELECT)
           /\ Len(u) > Len(SELECT) /\ u[Len(SELECT) + 1] \in Whitespace
           /\ StartsWith(afterSelect, TOP)
           /\ Len(afterSelect) > Len(TOP) /\ afterSelect[Len(TOP) + 1] \in Whitespace
           /\ afterTop # <<>> /\ IsDigit(Head(afterTop))
        THEN ParseNat(afterTop, 0)
        ELSE NoBound

Min(a, b) == IF a < b THEN a ELSE b

\* the rows 1..n
Rows(n) == [i \in 1..n |-> i]

(***************************************************************************)
(* Inputs of a request and answers of the LLM.                             *)
(***************************************************************************)
\* "If uncertain, attempt a query based on the most relevant table and columns":
\* the sentence of rule 6 that line 332 looks for, as one unit of text
IfUncertain == <<"If uncertain, attempt a query based on the most relevant table and columns">>

\* the sentence line 332 puts in its place
BestGuess == <<"Make a best-guess query using the most relevant table and columns, even if uncertain">>

Questions ==
    { <<"l","i","s","t"," ","t">>,
      <<"h","o","w"," ","m","a","n","y"," ","t">> }

Limits == 1..MaxLimit

FromDevice == FROM \o <<" ">> \o Bracketed(dbo, <<"t">>)

SelectStar == SELECT \o <<" ","*"," ">>

\* the texts the LLM may answer a generation prompt with
LLMResponses ==
    { SelectStar \o FromDevice,
      Lower(SelectStar \o FromDevice),
      SELECT \o <<" ">> \o TOP \o <<" ">> \o Str(MaxRows) \o <<" ","*"," ">> \o FromDevice,
      SelectStar \o FROM \o <<" ">> \o Bracketed(dbo, <<"x">>),
      SelectStar \o FROM \o <<" ">> \o Bracketed(dbo, <<"a",".","b">>),
      INSUFFICIENT_DATA \o <<"\n">>,
      <<"D","R","O","P"," ","T","A","B","L","E"," ">> \o Bracketed(dbo, <<"t">>),
      FENCE \o <<"s","q","l","\n">> \o SelectStar \o FromDevice \o <<"\n">> \o FENCE,
      SELECT \o <<" ","[","S","t","o","p","]"," ">> \o FromDevice,
      TOP \o <<" ">> \o Str(MaxRows) \o <<" ","*"," ">> \o FromDevice,
      <<"s","e","l","e","c","t"," ","(">> \o SELECT \o <<" ","1",")"," ">> \o Lower(FromDevice) }

\* the texts the LLM may answer the relaxed prompt with
RelaxedResponses ==
    { SelectStar \o FromDevice,
      Lower(SelectStar \o FromDevice),
      Lower(INSUFFICIENT_DATA),
      <<"D","R","O","P"," ","T","A","B","L","E"," ">> \o Bracketed(dbo, <<"t">>) }

(***************************************************************************)
(* State.                                                                  *)
(***************************************************************************)
VARIABLES
    question,            \* the request's question
    limit,               \* the request's row limit
    catalog,             \* the base tables of the warehouse
    DATABASE_COLLATION,  \* the process-wide collation cache of line 33
    pc,                  \* where the request stands in smart_analyze_question
    eq,                  \* the running call of execute_query
    openConns,           \* the connections this request opened and has not closed
    lft,                 \* the running call of list_fabric_tables
    available_tables,    \* line 315
    gti,                 \* the running call of get_tables_info
    prompt,              \* line 324
    generated_sql,       \* lines 326, 334 and 345
    results,             \* line 360
    payload,             \* what smart_analyze_question returned
    llmCalls,            \* the calls of ask_llm so far, in order
    executed,            \* the generated SQL handed to execute_query at line 360
    stages               \* the steps the generated text went through, in order

requestVars ==
    <<question, limit, catalog, pc, eq, openConns, lft, available_tables, gti,
      prompt, generated_sql, results, payload, llmCalls, executed, stages>>

VARIABLES
    tpc,                 \* where each thread stands in get_database_collation
    tcalls,              \* the calls of get_database_collation each thread completed
    tresult,             \* what the running or last call of each thread returns
    collationQueries,    \* how often the collation query was executed
    returned             \* what the completed calls returned, in order of return

threadVars == <<tpc, tcalls, tresult, collationQueries, returned>>

\* The history of the failures of a request. It is kept in the specifications
\* whose properties read it and left empty in the others.
VARIABLES
    traced,              \* the history is kept
    failed_queries,      \* the queries whose call of execute_query raised
    connect_failed       \* get_fabric_connection has raised in this request

historyVars == <<traced, failed_queries, connect_failed>>

VARIABLES
    endpoint,            \* the HTTP endpoint that serves the request
    epc,                 \* where the endpoint stands in its handler
    failed_ops,          \* the operations of the endpoint that raised
    inspected,           \* inspect_table: the columns of the table and the loop over them
    response             \* the HTTP response of the endpoint

endpointVars == <<endpoint, epc, failed_ops, inspected, response>>

VARIABLES
    raw_text,            \* a text handed to clean_generated_sql
    cleaned_text         \* what clean_generated_sql returned for it

cleanVars == <<raw_text, cleaned_text>>

VARIABLES
    fabric_connector,    \* frabicchatbot.py: the connector object of the mock app
    mock_request,        \* the request the mock app served last
    mock_executed,       \* the calls of the connector's execute_query in that request
    mock_response        \* the response to that request

mockVars == <<fabric_connector, mock_request, mock_executed, mock_response>>

vars == <<requestVars, DATABASE_COLLATION,
                   threadVars, historyVars, endpointVars, cleanVars, mockVars>>

\* frabicchatbot.py lines 35-41
MockCatalog ==
    <<"sales.customers", "sales.orders", "inventory.products", "finance.transactions",
      "hr.employees">>

\* frabicchatbot.py lines 27-31 and 83: the connector as the module creates it
NewConnector == [is_connected |-> FALSE, available_tables |-> MockCatalog]

NoRequest == [endpoint |-> "none"]

\* the mock app has created its connector and served nothing
MockIdle ==
    /\ fabric_connector = NewConnector
    /\ mock_request = NoRequest
    /\ mock_executed = <<>>
    /\ mock_response = [status |-> 0, body |-> None]

\* clean_generated_sql is not under study
NoCleaning ==
    /\ raw_text = <<>>
    /\ cleaned_text = None

Threads == 1..MaxThreads

NoPayload == [none |-> TRUE]

IdleCall ==
    [pc |-> "idle", query |-> NoQuery, conn |-> "none", cursor |-> FALSE,
     exc |-> FALSE, failed |-> "none", rows |-> <<>>]

NoListing == [ret |-> "none", results |-> <<>>, i |-> 1, tables |-> <<>>]

NoTablesInfo ==
    [all_tables |-> <<>>, i |-> 1, columns |-> <<>>, sample_data |-> "[]",
     unique_values |-> <<>>, j |-> 1, tables_info |-> <<>>]

NoResponse == [status |-> 0, body |-> "none"]

NoColumns == [columns |-> 0, col |-> 1]

\* no call of execute_query has raised yet
NoHistory ==
    /\ failed_queries = {}
    /\ connect_failed = FALSE

ThreadsIdle ==
    /\ tpc = [t \in Threads |-> "off"]
    /\ tcalls = [t \in Threads |-> 0]
    /\ tresult = [t \in Threads |-> [queried |-> FALSE, value |-> None]]
    /\ collationQueries = 0
    /\ returned = <<>>

\* a request arrives in a process whose collation cache is empty or was filled
\* by an earlier request
Init ==
    /\ question \in Questions
    /\ limit \in Limits
    /\ catalog \in Catalogs
    /\ DATABASE_COLLATION \in {None, Latin1_General_CI_AS}
    /\ pc = "start"
    /\ eq = IdleCall
    /\ openConns = 0
    /\ lft = NoListing
    /\ available_tables = <<>>
    /\ gti = NoTablesInfo
    /\ prompt = <<>>
    /\ generated_sql = <<>>
    /\ results = <<>>
    /\ payload = NoPayload
    /\ llmCalls = <<>>
    /\ executed = <<>>
    /\ stages = <<>>
    /\ ThreadsIdle
    /\ traced = FALSE
    /\ NoHistory
    /\ endpoint = "smart_analyze_endpoint"
    /\ epc = "call"
    /\ failed_ops = {}
    /\ inspected = NoColumns
    /\ response = NoResponse
    /\ NoCleaning
    /\ MockIdle

(***************************************************************************)
(* execute_query, lines 65-84, and get_fabric_connection, lines 35-63.     *)
(***************************************************************************)
\* the answers to the collation query: a collation, SQL NULL, or no row
CollationRows ==
    { <<[Collation |-> Latin1_General_CI_AS]>>,
      <<[Collation |-> None]>>,
      <<>> }

\* the rows the warehouse may answer a query with
DbRows(q) ==
    CASE q.kind = "tables" -> {catalog}
      [] q.kind = "columns" ->
            IF \E k \in 1..Len(catalog) :
                   catalog[k].schema = q.schema /\ catalog[k].name = q.table
            THEN {(CHOOSE t \in {catalog[k] : k \in 1..Len(catalog)} :
                       t.schema = q.schema /\ t.name = q.table).columns}
            ELSE {<<>>}
      [] q.kind = "collation" ->
            CollationRows
      [] q.kind = "generated" ->
            {Rows(n) : n \in 0..(IF TopBound(q.sql) = NoBound
                                 THEN MaxRows
                                 ELSE Min(TopBound(q.sql), MaxRows))}
      [] OTHER -> {<<1>>}

\* the caller's statement execute_query(query): the call begins
Call(q) == eq' = [IdleCall EXCEPT !.pc = "connect", !.query = q]

\* the call has returned or raised
Returned == eq.pc = "done"

\* line 67: get_fabric_connection raises (configuration missing, connect failed)
\* or returns a new connection
EQ_Connect ==
    /\ eq.pc = "connect"
    /\ \/ /\ eq' = [eq EXCEPT !.pc = "done", !.exc = TRUE, !.failed = "connect"]
          /\ failed_queries' = IF traced THEN failed_queries \cup {eq.query}
                               ELSE failed_queries
          /\ connect_failed' = traced
          /\ UNCHANGED <<openConns, traced>>
       \/ /\ eq' = [eq EXCEPT !.pc = "try", !.conn = "open"]
          /\ openConns' = openConns + 1
          /\ UNCHANGED historyVars
    /\ UNCHANGED <<question, limit, catalog, pc, lft, available_tables, gti, prompt,
                   generated_sql, results, payload, llmCalls, executed, stages,
                   DATABASE_COLLATION, threadVars, endpointVars, cleanVars, mockVars>>

\* lines 68-81: the cursor is created, the query executed and the rows fetched;
\* each of the three may raise
EQ_Try ==
    /\ eq.pc = "try"
    /\ \/ /\ openConns <= MaxLeaked
          /\ eq' = [eq EXCEPT !.pc = "finally", !.exc = TRUE, !.failed = "cursor"]
       \/ \E step \in {"execute", "fetch"} :
             eq' = [eq EXCEPT !.pc = "finally", !.cursor = TRUE, !.exc = TRUE,
                              !.failed = step]
       \/ \E rows \in DbRows(eq.query) :
             eq' = [eq EXCEPT !.pc = "finally", !.cursor = TRUE, !.rows = rows]
    /\ UNCHANGED <<question, limit, catalog, pc, openConns, lft, available_tables, gti,
                   prompt, generated_sql, results, payload, llmCalls, executed, stages,
                   DATABASE_COLLATION,
                   threadVars, historyVars, endpointVars, cleanVars, mockVars>>

\* lines 82-84: cursor.close() and then conn.close(). With no cursor bound the
\* first statement raises UnboundLocalError; when cursor.close() raises, the
\* second statement is not reached either
FinallyBlock ==
    IF ~eq.cursor
    THEN /\ eq' = [eq EXCEPT !.pc = "done", !.exc = TRUE]
         /\ UNCHANGED openConns
    ELSE \/ /\ openConns <= MaxLeaked
            /\ eq' = [eq EXCEPT !.pc = "done", !.exc = TRUE, !.rows = <<>>,
                                !.failed = IF eq.failed = "none" THEN "close_cursor"
                                           ELSE eq.failed]
            /\ UNCHANGED openConns
         \/ /\ eq' = [eq EXCEPT !.pc = "done", !.conn = "closed"]
            /\ openConns' = openConns - 1

EQ_Finally ==
    /\ eq.pc = "finally"
    /\ FinallyBlock
    /\ failed_queries' = IF traced /\ eq'.exc THEN failed_queries \cup {eq.query}
                         ELSE failed_queries
    /\ UNCHANGED <<question, limit, catalog, pc, lft, available_tables, gti, prompt,
                   generated_sql, results, payload, llmCalls, executed, stages,
                   DATABASE_COLLATION, threadVars, traced, connect_failed, endpointVars, cleanVars, mockVars>>

(***************************************************************************)
(* list_fabric_tables, lines 152-187.                                      *)
(***************************************************************************)
\* an exception that reaches the except clause of line 432
Raise == pc' = "except"

\* line 163: the metadata query has returned or raised; list_fabric_tables does
\* not catch what it raises, nor do its callers before line 432
LFT_Rows ==
    /\ pc = "lft_rows" /\ Returned
    /\ eq' = IdleCall
    /\ IF eq.exc
       THEN Raise /\ UNCHANGED lft
       ELSE pc' = "lft_loop" /\ lft' = [lft EXCEPT !.results = eq.rows]
    /\ UNCHANGED <<question, limit, catalog, openConns, available_tables, gti, prompt,
                   generated_sql, results, payload, llmCalls, executed, stages,
                   DATABASE_COLLATION,
                   threadVars, historyVars, endpointVars, cleanVars, mockVars>>

\* lines 165-172: the next row is probed, or the loop ends
LFT_Loop ==
    /\ pc = "lft_loop"
    /\ IF lft.i <= Len(lft.results)
       THEN /\ Call(ProbeQuery(lft.results[lft.i].schema, lft.results[lft.i].name))
            /\ pc' = "lft_probed"
       ELSE /\ pc' = "lft_return"
            /\ UNCHANGED eq
    /\ UNCHANGED <<question, limit, catalog, openConns, lft, available_tables, gti,
                   prompt, generated_sql, results, payload, llmCalls, executed, stages,
                   DATABASE_COLLATION,
                   threadVars, historyVars, endpointVars, cleanVars, mockVars>>

\* lines 178-184: the entry of a table, given the working_format of line 173 or
\* the None of line 176
TableEntry(row, working_format) ==
    [schema |-> row.schema,
     name |-> row.name,
     type |-> row.type,
     full_name |-> row.schema \o <<".">> \o row.name,
     working_format |-> IF working_format # None THEN working_format
                        ELSE Bracketed(row.schema, row.name)]

\* lines 173-184 with the entry added only for a table whose probe succeeded
LFT_Probed_DropsFailed ==
    /\ pc = "lft_probed" /\ Returned
    /\ eq' = IdleCall
    /\ LET row == lft.results[lft.i]
       IN  lft' = [lft EXCEPT !.tables = IF eq.exc THEN @
                                        ELSE Append(@, TableEntry(row, Bracketed(row.schema,
                                                                                 row.name))),
                              !.i = @ + 1]
    /\ pc' = "lft_loop"
    /\ UNCHANGED <<question, limit, catalog, openConns, available_tables, gti, prompt,
                   generated_sql, results, payload, llmCalls, executed, stages,
                   DATABASE_COLLATION, threadVars, historyVars, endpointVars, cleanVars, mockVars>>

\* lines 173-184: the probe has returned or raised, and the table is listed
LFT_Probed ==
    /\ pc = "lft_probed" /\ Returned
    /\ eq' = IdleCall
    /\ LET row == lft.results[lft.i]
           working_format == IF eq.exc THEN None ELSE Bracketed(row.schema, row.name)
       IN  lft' = [lft EXCEPT !.tables = Append(@, TableEntry(row, working_format)),
                              !.i = @ + 1]
    /\ pc' = "lft_loop"
    /\ UNCHANGED <<question, limit, catalog, openConns, available_tables, gti, prompt,
                   generated_sql, results, payload, llmCalls, executed, stages,
                   DATABASE_COLLATION,
                   threadVars, historyVars, endpointVars, cleanVars, mockVars>>

\* line 187: the listing returns to line 315 or to line 219
LFT_Return ==
    /\ pc = "lft_return"
    /\ IF lft.ret = "smart_analyze_question"
       THEN /\ available_tables' = lft.tables
            /\ pc' = "listed"
            /\ UNCHANGED gti
       ELSE /\ gti' = [NoTablesInfo EXCEPT !.all_tables = lft.tables]
            /\ pc' = "gti_loop"
            /\ UNCHANGED available_tables
    /\ lft' = NoListing
    /\ UNCHANGED <<question, limit, catalog, eq, openConns, prompt, generated_sql,
                   results, payload, llmCalls, executed, stages,
                   DATABASE_COLLATION,
                   threadVars, historyVars, endpointVars, cleanVars, mockVars>>

(***************************************************************************)
(* get_table_schema, lines 189-215, and get_tables_info, lines 217-257.    *)
(***************************************************************************)
\* lines 191-192: schema, table = table_name.split(".", 1)
SplitQualified(table_name) ==
    LET i == Find(table_name, <<".">>)
    IN  [schema |-> SubSeq(table_name, 1, i - 1),
         table |-> SubSeq(table_name, i + 1, Len(table_name))]

\* lines 201-209: the columns query of get_table_schema for a dotted name
SchemaQuery(table_name) ==
    ColumnsQuery(SplitQualified(table_name).schema, SplitQualified(table_name).table)

StringTypes == {"varchar", "nvarchar", "char", "nchar"}

\* line 255: the block of a table whose schema lookup raised
UnavailableBlock(table) ==
    [table |-> Bracketed(table.schema, table.name), available |-> FALSE,
     columns |-> <<>>, sample_data |-> "[]", unique_values |-> <<>>]

\* lines 246-251
TableBlock(table, columns, sample_data, unique_values) ==
    [table |-> Bracketed(table.schema, table.name), available |-> TRUE,
     columns |-> columns, sample_data |-> sample_data, unique_values |-> unique_values]

\* lines 222-224: the schema of the next table is looked up, or line 257 returns
GTI_Loop ==
    /\ pc = "gti_loop"
    /\ IF gti.i <= Len(gti.all_tables)
       THEN /\ Call(SchemaQuery(gti.all_tables[gti.i].full_name))
            /\ pc' = "gti_schema"
       ELSE /\ pc' = "build_prompt"
            /\ UNCHANGED eq
    /\ UNCHANGED <<question, limit, catalog, openConns, lft, available_tables, gti,
                   prompt, generated_sql, results, payload, llmCalls, executed, stages,
                   DATABASE_COLLATION,
                   threadVars, historyVars, endpointVars, cleanVars, mockVars>>

\* lines 224-231 and 253-255: the lookup raised and the table gets the
\* unavailable block, or the sample query is sent
GTI_Schema ==
    /\ pc = "gti_schema" /\ Returned
    /\ IF eq.exc
       THEN /\ gti' = [gti EXCEPT
                          !.tables_info = Append(@, UnavailableBlock(gti.all_tables[gti.i])),
                          !.i = @ + 1]
            /\ pc' = "gti_loop"
            /\ eq' = IdleCall
       ELSE /\ gti' = [gti EXCEPT !.columns = eq.rows]
            /\ Call(SampleQuery(gti.all_tables[gti.i].schema, gti.all_tables[gti.i].name))
            /\ pc' = "gti_sample"
    /\ UNCHANGED <<question, limit, catalog, openConns, lft, available_tables, prompt,
                   generated_sql, results, payload, llmCalls, executed, stages,
                   DATABASE_COLLATION,
                   threadVars, historyVars, endpointVars, cleanVars, mockVars>>

\* lines 228-236: a failed sample query leaves sample_data empty
GTI_Sample ==
    /\ pc = "gti_sample" /\ Returned
    /\ eq' = IdleCall
    /\ gti' = [gti EXCEPT !.sample_data = IF eq.exc THEN "[]" ELSE "rows",
                          !.unique_values = <<>>,
                          !.j = 1]
    /\ pc' = "gti_columns"
    /\ UNCHANGED <<question, limit, catalog, openConns, lft, available_tables, prompt,
                   generated_sql, results, payload, llmCalls, executed, stages,
                   DATABASE_COLLATION,
                   threadVars, historyVars, endpointVars, cleanVars, mockVars>>

\* lines 237-252: the distinct values of the next string column are asked for,
\* a column of another type is passed over, or the block of the table is added
GTI_Columns ==
    /\ pc = "gti_columns"
    /\ IF gti.j <= Len(gti.columns)
       THEN IF gti.columns[gti.j].DATA_TYPE \in StringTypes
            THEN /\ Call(UniqueQuery(gti.all_tables[gti.i].schema,
                                     gti.all_tables[gti.i].name))
                 /\ pc' = "gti_unique"
                 /\ UNCHANGED gti
            ELSE /\ gti' = [gti EXCEPT !.j = @ + 1]
                 /\ UNCHANGED <<pc, eq>>
       ELSE /\ gti' = [gti EXCEPT
                          !.tables_info =
                              Append(@, TableBlock(gti.all_tables[gti.i], gti.columns,
                                                   gti.sample_data, gti.unique_values)),
                          !.i = @ + 1]
            /\ pc' = "gti_loop"
            /\ UNCHANGED eq
    /\ UNCHANGED <<question, limit, catalog, openConns, lft, available_tables, prompt,
                   generated_sql, results, payload, llmCalls, executed, stages,
                   DATABASE_COLLATION,
                   threadVars, historyVars, endpointVars, cleanVars, mockVars>>

\* lines 241-244 without the try: what the query raises leaves get_tables_info
GTI_Unique_Raises ==
    /\ pc = "gti_unique" /\ Returned
    /\ eq' = IdleCall
    /\ IF eq.exc
       THEN Raise /\ UNCHANGED gti
       ELSE /\ gti' = [gti EXCEPT
                          !.unique_values =
                              Append(@, [column |-> gti.columns[gti.j].COLUMN_NAME,
                                         value |-> "values"]),
                          !.j = @ + 1]
            /\ pc' = "gti_columns"
    /\ UNCHANGED <<question, limit, catalog, openConns, lft, available_tables, prompt,
                   generated_sql, results, payload, llmCalls, executed, stages,
                   DATABASE_COLLATION, threadVars, historyVars, endpointVars, cleanVars, mockVars>>

\* lines 241-244: the values of the column, or the error placeholder
GTI_Unique ==
    /\ pc = "gti_unique" /\ Returned
    /\ eq' = IdleCall
    /\ gti' = [gti EXCEPT
                  !.unique_values =
                      Append(@, [column |-> gti.columns[gti.j].COLUMN_NAME,
                                 value |-> IF eq.exc THEN "Error" ELSE "values"]),
                  !.j = @ + 1]
    /\ pc' = "gti_columns"
    /\ UNCHANGED <<question, limit, catalog, openConns, lft, available_tables, prompt,
                   generated_sql, results, payload, llmCalls, executed, stages,
                   DATABASE_COLLATION,
                   threadVars, historyVars, endpointVars, cleanVars, mockVars>>

(***************************************************************************)
(* get_database_collation, lines 86-98, is_collation_case_insensitive,     *)
(* lines 100-103, and build_smart_prompt, lines 259-298.                   *)
(***************************************************************************)
\* lines 93 and 97: what the cache is set to after the collation query
DetectedCollation(exc, rows) ==
    IF exc THEN Unknown
    ELSE IF rows # <<>> THEN rows[1].Collation ELSE Unknown

\* line 89: the cache is empty and the collation has to be asked for
CacheEmpty(cached) == cached = None

\* lines 261 and 102, 88-92: an empty cache sends the collation query
GDC_Check ==
    /\ pc = "build_prompt"
    /\ IF CacheEmpty(DATABASE_COLLATION)
       THEN Call(CollationQuery) /\ pc' = "collation"
       ELSE pc' = "prompt" /\ UNCHANGED eq
    /\ UNCHANGED <<question, limit, catalog, openConns, lft, available_tables, gti,
                   prompt, generated_sql, results, payload, llmCalls, executed, stages,
                   DATABASE_COLLATION,
                   threadVars, historyVars, endpointVars, cleanVars, mockVars>>

\* lines 93-97
GDC_Store ==
    /\ pc = "collation" /\ Returned
    /\ eq' = IdleCall
    /\ DATABASE_COLLATION' = DetectedCollation(eq.exc, eq.rows)
    /\ pc' = "prompt"
    /\ UNCHANGED <<question, limit, catalog, openConns, lft, available_tables, gti,
                   prompt, generated_sql, results, payload, llmCalls, executed, stages,
                   threadVars, historyVars, endpointVars, cleanVars, mockVars>>

\* line 103, for a collation that is a string
CaseInsensitive(collation) ==
    IF collation # Unknown THEN Contains(Upper(collation), <<"C","I">>) ELSE FALSE

\* lines 262-267
CaseInstruction(case_insensitive) ==
    IF ~case_insensitive
    THEN <<"For string columns (varchar, nvarchar, char, nchar), use LOWER([Column]) = LOWER('value')">>
    ELSE <<"String comparisons are case-insensitive due to database collation.">>

ColumnText(col) ==
    <<"[", col.COLUMN_NAME, "] (", col.DATA_TYPE, ", Nullable: ", col.IS_NULLABLE, ")">>

RECURSIVE ColumnsText(_)
ColumnsText(columns) ==
    IF columns = <<>> THEN <<>>
    ELSE ColumnText(Head(columns))
         \o (IF Len(columns) > 1 THEN <<",", " ">> ELSE <<>>) \o ColumnsText(Tail(columns))

RECURSIVE UniqueText(_)
UniqueText(unique_values) ==
    IF unique_values = <<>> THEN <<>>
    ELSE <<Head(unique_values).column, ": ", Head(unique_values).value>>
         \o UniqueText(Tail(unique_values))

\* lines 246-251 and 255: the text of one table
BlockText(b) ==
    IF b.available
    THEN <<"Table: ">> \o b.table \o <<"\n", "Columns: ">> \o ColumnsText(b.columns)
         \o <<"\n", "Sample Data: ", b.sample_data, "\n", "Unique Values (string columns): ">>
         \o UniqueText(b.unique_values)
    ELSE <<"Table: ">> \o b.table \o <<" (Schema unavailable)">>

RECURSIVE TablesInfoText(_)
\* line 257: the blocks joined by an empty line
TablesInfoText(blocks) ==
    IF blocks = <<>> THEN <<>>
    ELSE BlockText(Head(blocks))
         \o (IF Len(blocks) > 1 THEN <<"\n", "\n">> ELSE <<>>) \o TablesInfoText(Tail(blocks))

\* lines 269-298: the template, its fixed passages as units of text
PromptText(q, tables_info, lim, case_insensitive) ==
    <<"Generate a Microsoft Fabric SQL Database query to answer this question.",
      "CRITICAL RULES 1-3", "4. Include TOP ">> \o Str(lim)
    \o <<" for performance", "5. Return only the SQL query, no explanations", "6. ">>
    \o IfUncertain \o <<", using sample values to guide conditions", "7.", "8. ">>
    \o CaseInstruction(case_insensitive)
    \o <<"9-12.", "Available Tables:", "\n">> \o tables_info
    \o <<"\n", "Question: ">> \o q
    \o <<"\n", "Examples: SELECT TOP ">> \o Str(lim)
    \o <<"Return only the complete SQL query starting with SELECT:">>

\* lines 324 and 261: the collation is read; None has no upper()
BSP_Build ==
    /\ pc = "prompt"
    /\ IF DATABASE_COLLATION = None
       THEN Raise /\ UNCHANGED prompt
       ELSE /\ prompt' = PromptText(question, TablesInfoText(gti.tables_info), limit,
                                    CaseInsensitive(DATABASE_COLLATION))
            /\ pc' = "ask"
    /\ UNCHANGED <<question, limit, catalog, eq, openConns, lft, available_tables, gti,
                   generated_sql, results, payload, llmCalls, executed, stages,
                   DATABASE_COLLATION,
                   threadVars, historyVars, endpointVars, cleanVars, mockVars>>

(***************************************************************************)
(* smart_analyze_question, lines 311-438.                                  *)
(***************************************************************************)
\* line 315
SA_Start ==
    /\ pc = "start"
    /\ lft' = [NoListing EXCEPT !.ret = "smart_analyze_question"]
    /\ Call(MetaQuery)
    /\ pc' = "lft_rows"
    /\ UNCHANGED <<question, limit, catalog, openConns, available_tables, gti, prompt,
                   generated_sql, results, payload, llmCalls, executed, stages,
                   DATABASE_COLLATION,
                   threadVars, historyVars, endpointVars, cleanVars, mockVars>>

\* lines 356, 367 and 392 with the bracketed format in place of the full name
FullNames_Bracketed(tables) == [k \in 1..Len(tables) |-> tables[k].working_format]

\* lines 356, 367 and 392
FullNames(tables) == [k \in 1..Len(tables) |-> tables[k].full_name]

\* lines 316-323 without the test of line 316: get_tables_info begins whatever
\* the listing returned
SA_Listed_NoEmptyCheck ==
    /\ pc = "listed"
    /\ lft' = [NoListing EXCEPT !.ret = "get_tables_info"]
    /\ Call(MetaQuery)
    /\ pc' = "lft_rows"
    /\ UNCHANGED <<question, limit, catalog, openConns, available_tables, gti, prompt,
                   generated_sql, results, payload, llmCalls, executed, stages,
                   DATABASE_COLLATION,
                   threadVars, historyVars, endpointVars, cleanVars, mockVars>>

\* lines 316-323: no tables end the request; otherwise get_tables_info begins
\* with a listing of its own (line 219)
SA_Listed ==
    /\ pc = "listed"
    /\ IF available_tables = <<>>
       THEN /\ payload' = [question |-> question,
                           error |-> "No tables found in Fabric SQL Database",
                           suggestion |-> "Check your connection and table permissions"]
            /\ pc' = "done"
            /\ UNCHANGED <<lft, eq>>
       ELSE /\ lft' = [NoListing EXCEPT !.ret = "get_tables_info"]
            /\ Call(MetaQuery)
            /\ pc' = "lft_rows"
            /\ UNCHANGED payload
    /\ UNCHANGED <<question, limit, catalog, openConns, available_tables, gti, prompt,
                   generated_sql, results, llmCalls, executed, stages,
                   DATABASE_COLLATION,
                   threadVars, historyVars, endpointVars, cleanVars, mockVars>>

\* one call of ask_llm (lines 128-147) as the request records it
LlmCall(kind, text, raised, cleaned) ==
    [kind |-> kind, prompt |-> text, raised |-> raised, cleaned |-> cleaned]

\* lines 325-326: the LLM raises or answers, and the answer is cleaned
SA_Ask ==
    /\ pc = "ask"
    /\ \/ /\ llmCalls' = Append(llmCalls, LlmCall("generate", prompt, TRUE, None))
          /\ Raise
          /\ UNCHANGED <<generated_sql, stages>>
       \/ \E raw \in LLMResponses :
             /\ generated_sql' = clean_generated_sql(raw)
             /\ llmCalls' = Append(llmCalls, LlmCall("generate", prompt, FALSE,
                                                     clean_generated_sql(raw)))
             /\ stages' = stages \o <<"raw", "cleaned">>
             /\ pc' = "cleaned"
    /\ UNCHANGED <<question, limit, catalog, eq, openConns, lft, available_tables, gti,
                   prompt, results, payload, executed, DATABASE_COLLATION,
                   threadVars, historyVars, endpointVars, cleanVars, mockVars>>

\* line 330
IsSentinel(sql) == Upper(Strip(sql)) = INSUFFICIENT_DATA

\* line 332 with a sentence the prompt does not hold: nothing is replaced
RelaxedPrompt_NoMatch(text) == ReplaceAll(text, <<"If uncertain, try a query">>, BestGuess)

\* line 332
RelaxedPrompt(text) == ReplaceAll(text, IfUncertain, BestGuess)

\* line 330: the sentinel asks for the relaxed generation
SA_Sentinel ==
    /\ pc = "cleaned"
    /\ pc' = IF IsSentinel(generated_sql) THEN "ask_relaxed" ELSE "validate"
    /\ UNCHANGED <<question, limit, catalog, eq, openConns, lft, available_tables, gti,
                   prompt, generated_sql, results, payload, llmCalls, executed, stages,
                   DATABASE_COLLATION,
                   threadVars, historyVars, endpointVars, cleanVars, mockVars>>

\* lines 332-335
SA_AskRelaxed ==
    /\ pc = "ask_relaxed"
    /\ \/ /\ llmCalls' = Append(llmCalls, LlmCall("generate", RelaxedPrompt(prompt), TRUE, None))
          /\ Raise
          /\ UNCHANGED <<generated_sql, stages>>
       \/ \E raw \in RelaxedResponses :
             /\ generated_sql' = clean_generated_sql(raw)
             /\ llmCalls' = Append(llmCalls, LlmCall("generate", RelaxedPrompt(prompt), FALSE,
                                                     clean_generated_sql(raw)))
             /\ stages' = stages \o <<"raw", "cleaned">>
             /\ pc' = "validate"
    /\ UNCHANGED <<question, limit, catalog, eq, openConns, lft, available_tables, gti,
                   prompt, results, payload, executed, DATABASE_COLLATION,
                   threadVars, historyVars, endpointVars, cleanVars, mockVars>>

\* line 337 with the test left out
IsSelect_Unchecked(sql) == TRUE

\* line 337
IsSelect(sql) == StartsWith(Upper(sql), SELECT)

\* lines 344-345 left out
InjectLimit_Skipped(sql, lim) == sql

\* lines 344-345
InjectLimit(sql, lim) ==
    IF ~Contains(Upper(sql), TOP)
    THEN Replace(sql, SELECT, SELECT \o <<" ">> \o TOP \o <<" ">> \o Str(lim), 1)
    ELSE sql

\* line 347
ValidNames(tables) ==
    [k \in 1..Len(tables) |-> Lower(Bracketed(tables[k].schema, tables[k].name))]

\* lines 348-349 with the bare table names looked for instead of the qualified ones
HasValidTable_BareName(sql, tables) ==
    \E k \in 1..Len(tables) : Contains(Lower(sql), Lower(tables[k].name))

\* lines 348-349
HasValidTable(sql, tables) ==
    \E k \in 1..Len(tables) : Contains(Lower(sql), ValidNames(tables)[k])

\* lines 337-360: the SELECT check, the limit, the table check, and the query is
\* handed to execute_query
SA_Validate ==
    /\ pc = "validate"
    /\ LET injected == InjectLimit(generated_sql, limit)
       IN  IF ~IsSelect(generated_sql)
           THEN /\ payload' = [question |-> question,
                               error |-> "Generated query is not a SELECT statement",
                               generated_sql |-> generated_sql]
                /\ stages' = stages \o <<"select_checked">>
                /\ pc' = "done"
                /\ UNCHANGED <<generated_sql, eq, executed>>
           ELSE IF ~HasValidTable(injected, available_tables)
           THEN /\ generated_sql' = injected
                /\ payload' = [question |-> question,
                               error |-> "Generated query references invalid tables",
                               generated_sql |-> injected,
                               available_tables |-> FullNames(available_tables)]
                /\ stages' = stages \o <<"select_checked", "limit_injected", "table_checked">>
                /\ pc' = "done"
                /\ UNCHANGED <<eq, executed>>
           ELSE /\ generated_sql' = injected
                /\ Call(GeneratedQuery(injected))
                /\ executed' = Append(executed, injected)
                /\ stages' = stages \o <<"select_checked", "limit_injected", "table_checked",
                                         "validated">>
                /\ pc' = "executed"
                /\ UNCHANGED payload
    /\ UNCHANGED <<question, limit, catalog, openConns, lft, available_tables, gti, prompt,
                   results, llmCalls, DATABASE_COLLATION,
                   threadVars, historyVars, endpointVars, cleanVars, mockVars>>

\* line 373: the first known name the query holds
FirstValidName(sql, tables) ==
    ValidNames(tables)[CHOOSE k \in 1..Len(tables) :
        /\ Contains(Lower(sql), ValidNames(tables)[k])
        /\ \A m \in 1..(k - 1) : ~Contains(Lower(sql), ValidNames(tables)[m])]

\* line 375 with every bracket removed, which gives back the schema and the table
NameParts_Unbracketed(table_name) ==
    Split(ReplaceAll(ReplaceAll(table_name, <<"[">>, <<>>), <<"]">>, <<>>), ".")

\* line 375: table_name.strip('[]').split('.')
NameParts(table_name) ==
    Split(RStripSet(LStripSet(table_name, {"[", "]"}), {"[", "]"}), ".")

\* lines 361-375: the query raised, returned no rows or returned rows
SA_Executed ==
    /\ pc = "executed" /\ Returned
    /\ IF eq.exc
       THEN /\ payload' = [question |-> question,
                           error |-> "SQL execution failed",
                           generated_sql |-> generated_sql,
                           available_tables |-> FullNames(available_tables),
                           suggestion |-> "Check table/column names and permissions"]
            /\ pc' = "done"
            /\ eq' = IdleCall
            /\ UNCHANGED <<results, stages>>
       ELSE /\ results' = eq.rows
            /\ stages' = stages \o <<"executed">>
            /\ IF eq.rows = <<>>
               THEN LET parts == NameParts(FirstValidName(generated_sql, available_tables))
                    IN  IF Len(parts) # 2
                        THEN Raise /\ eq' = IdleCall
                        ELSE /\ Call(SchemaQuery(parts[1] \o <<".">> \o parts[2]))
                             /\ pc' = "suggest"
               ELSE /\ pc' = "summarize"
                    /\ eq' = IdleCall
            /\ UNCHANGED payload
    /\ UNCHANGED <<question, limit, catalog, openConns, lft, available_tables, gti, prompt,
                   generated_sql, llmCalls, executed, DATABASE_COLLATION,
                   threadVars, historyVars, endpointVars, cleanVars, mockVars>>

RECURSIVE Suggestions(_)
\* lines 378-384
Suggestions(columns) ==
    IF columns = <<>> THEN <<>>
    ELSE (CASE Head(columns).DATA_TYPE \in {"bit", "int"} ->
                   <<[column |-> Head(columns).COLUMN_NAME, try |-> "= 0 or = 1"]>>
            [] Head(columns).DATA_TYPE \in {"datetime", "date"} ->
                   <<[column |-> Head(columns).COLUMN_NAME, try |-> "< DATEADD"]>>
            [] Head(columns).DATA_TYPE \in StringTypes ->
                   <<[column |-> Head(columns).COLUMN_NAME, try |-> "LOWER"]>>
            [] OTHER -> <<>>)
         \o Suggestions(Tail(columns))

DefaultSuggestions ==
    <<[column |-> "", try |-> "Check column values using /api/fabric/inspect-table"],
      [column |-> "", try |-> "Try alternative conditions"]>>

\* lines 376-394: the payload of a query that returned no rows
SA_Suggest ==
    /\ pc = "suggest" /\ Returned
    /\ eq' = IdleCall
    /\ LET suggestions == IF eq.exc
                          THEN <<[column |-> "", try |-> "Error inspecting table"]>>
                          ELSE Suggestions(eq.rows)
       IN  payload' = [question |-> question,
                       generated_sql |-> generated_sql,
                       analysis |-> <<"Query executed but returned no results">>,
                       available_tables |-> FullNames(available_tables),
                       suggestions |-> IF suggestions # <<>> THEN suggestions
                                       ELSE DefaultSuggestions]
    /\ pc' = "done"
    /\ UNCHANGED <<question, limit, catalog, openConns, lft, available_tables, gti, prompt,
                   generated_sql, results, llmCalls, executed, stages,
                   DATABASE_COLLATION,
                   threadVars, historyVars, endpointVars, cleanVars, mockVars>>

IsWordChar(c) ==
    \/ \E i \in 1..26 : c = Lowers[i] \/ c = Uppers[i]
    \/ IsDigit(c)
    \/ c = "_"

ListingWords ==
    { <<"l","i","s","t">>, <<"s","h","o","w">>, <<"d","i","s","p","l","a","y">>,
      <<"w","h","i","c","h">>, <<"w","h","a","t">> }

\* line 398 without the word boundary that ends the pattern
IsListingQuery_Prefix(q) ==
    \E w \in ListingWords : StartsWith(LStripSet(Lower(q), Whitespace), w)

\* line 398: the question, in lower case and after leading whitespace, begins
\* with one of the words, and the word ends there
IsListingQuery(q) ==
    LET text == LStripSet(Lower(q), Whitespace)
    IN  \E w \in ListingWords :
           /\ StartsWith(text, w)
           /\ Len(text) > Len(w) => ~IsWordChar(text[Len(w) + 1])

\* lines 396-421
AnalysisPrompt(q, rows, lim) ==
    IF IsListingQuery(q)
    THEN <<"Based on this data, provide a formatted list of the results", "Data: ">>
         \o [k \in 1..Len(Take(rows, lim)) |-> Str(rows[k])]
         \o <<"Question: ">> \o q \o <<"Format the response as a numbered list">>
    ELSE <<"Based on this data, answer the question directly and concisely:", "Data: ">>
         \o [k \in 1..Len(Take(rows, lim)) |-> Str(rows[k])]
         \o <<"Question: ">> \o q \o <<"Provide a specific, direct answer:">>

\* lines 396-431 with the rows of the context (line 396) counted at line 429
SA_Summarize_CountsContext ==
    /\ pc = "summarize"
    /\ \/ /\ llmCalls' = Append(llmCalls, LlmCall("summarize",
                                    AnalysisPrompt(question, results, limit), TRUE, None))
          /\ Raise
          /\ UNCHANGED <<payload, stages>>
       \/ /\ llmCalls' = Append(llmCalls, LlmCall("summarize",
                                    AnalysisPrompt(question, results, limit), FALSE, None))
          /\ payload' = [question |-> question,
                         generated_sql |-> generated_sql,
                         analysis |-> <<"analysis">>,
                         result_count |-> Len(Take(results, limit)),
                         results |-> results]
          /\ stages' = stages \o <<"summarized">>
          /\ pc' = "done"
    /\ UNCHANGED <<question, limit, catalog, eq, openConns, lft, available_tables, gti,
                   prompt, generated_sql, results, executed, DATABASE_COLLATION,
                   threadVars, historyVars, endpointVars, cleanVars, mockVars>>

\* lines 396-431: the summary is asked for and the rows are returned
SA_Summarize ==
    /\ pc = "summarize"
    /\ \/ /\ llmCalls' = Append(llmCalls, LlmCall("summarize",
                                    AnalysisPrompt(question, results, limit), TRUE, None))
          /\ Raise
          /\ UNCHANGED <<payload, stages>>
       \/ /\ llmCalls' = Append(llmCalls, LlmCall("summarize",
                                    AnalysisPrompt(question, results, limit), FALSE, None))
          /\ payload' = [question |-> question,
                         generated_sql |-> generated_sql,
                         analysis |-> <<"analysis">>,
                         result_count |-> Len(results),
                         results |-> results]
          /\ stages' = stages \o <<"summarized">>
          /\ pc' = "done"
    /\ UNCHANGED <<question, limit, catalog, eq, openConns, lft, available_tables, gti,
                   prompt, generated_sql, results, executed, DATABASE_COLLATION,
                   threadVars, historyVars, endpointVars, cleanVars, mockVars>>

\* lines 432-438: whatever was raised and not caught before ends the request
SA_Except ==
    /\ pc = "except"
    /\ payload' = [question |-> question,
                   error |-> "Analysis failed",
                   suggestion |-> "Check connection and try a simpler question"]
    /\ pc' = "done"
    /\ UNCHANGED <<question, limit, catalog, eq, openConns, lft, available_tables, gti,
                   prompt, generated_sql, results, llmCalls, executed, stages,
                   DATABASE_COLLATION,
                   threadVars, historyVars, endpointVars, cleanVars, mockVars>>

(***************************************************************************)
(* smart_analyze_endpoint, lines 455-468.                                  *)
(***************************************************************************)
\* lines 461-464: a payload with an error is raised as HTTPException 400, which
\* line 465 passes on; any other payload is the body of a 200. Line 467 is for
\* an exception of smart_analyze_question, whose line 432 lets none out.
SmartAnalyzeResponse(result) ==
    IF "error" \in DOMAIN result
    THEN [status |-> 400, body |-> "detail"]
    ELSE [status |-> 200, body |-> "result"]

SAE_Respond ==
    /\ endpoint = "smart_analyze_endpoint"
    /\ epc = "call"
    /\ pc = "done"
    /\ response' = SmartAnalyzeResponse(payload)
    /\ epc' = "responded"
    /\ UNCHANGED <<requestVars, DATABASE_COLLATION, threadVars, historyVars, cleanVars, mockVars, endpoint,
                   failed_ops, inspected>>

Next ==
    \/ SAE_Respond
    \/ SA_Start \/ SA_Listed \/ SA_Ask \/ SA_Sentinel \/ SA_AskRelaxed \/ SA_Validate
    \/ SA_Executed \/ SA_Suggest \/ SA_Summarize \/ SA_Except
    \/ LFT_Rows \/ LFT_Loop \/ LFT_Probed \/ LFT_Return
    \/ GTI_Loop \/ GTI_Schema \/ GTI_Sample \/ GTI_Columns \/ GTI_Unique
    \/ GDC_Check \/ GDC_Store \/ BSP_Build
    \/ EQ_Connect \/ EQ_Try \/ EQ_Finally

Spec == Init /\ [][Next]_vars

\* line 459: smart_analyze_question is entered, nothing of it has run
Entered ==
    /\ pc = "start"
    /\ eq = IdleCall
    /\ openConns = 0
    /\ lft = NoListing
    /\ available_tables = <<>>
    /\ gti = NoTablesInfo
    /\ prompt = <<>>
    /\ generated_sql = <<>>
    /\ results = <<>>
    /\ payload = NoPayload
    /\ llmCalls = <<>>
    /\ executed = <<>>
    /\ stages = <<>>
    /\ ThreadsIdle
    /\ NoHistory
    /\ endpoint = "smart_analyze_endpoint"
    /\ epc = "call"
    /\ failed_ops = {}
    /\ inspected = NoColumns
    /\ response = NoResponse
    /\ NoCleaning
    /\ MockIdle

\* a request for one listed table arrives in a process whose collation cache is
\* empty, and the history of its failures is kept
InitTraced ==
    /\ question \in Questions
    /\ limit = 1
    /\ catalog = <<DeviceTable>>
    /\ DATABASE_COLLATION = None
    /\ traced = TRUE
    /\ Entered

SpecTraced == InitTraced /\ [][Next]_vars

\* questions that begin with a listing word or not: in upper case and after
\* whitespace, as the beginning of a longer word, as the whole question, and
\* further on in the question
SummaryQuestions ==
    Questions \cup
    { <<" ","W","h","a","t"," ","t">>,
      <<"l","i","s","t","i","n","g"," ","t">>,
      <<"S","H","O","W">>,
      <<"t"," ","l","i","s","t">> }

\* a request with one of these questions for one listed table
InitSummaries ==
    /\ question \in SummaryQuestions
    /\ limit = 1
    /\ catalog = <<DeviceTable>>
    /\ DATABASE_COLLATION = None
    /\ traced = FALSE
    /\ Entered

SpecSummaries == InitSummaries /\ [][Next]_vars

\* a base table with two string columns before a column of another type
NotesTable ==
    [schema |-> dbo, name |-> <<"t">>, type |-> "BASE TABLE",
     columns |-> << [COLUMN_NAME |-> "Name", DATA_TYPE |-> "nvarchar", IS_NULLABLE |-> "NO"],
                    [COLUMN_NAME |-> "Note", DATA_TYPE |-> "varchar", IS_NULLABLE |-> "YES"],
                    [COLUMN_NAME |-> "DeviceID", DATA_TYPE |-> "int", IS_NULLABLE |-> "NO"] >>]

\* a request to a warehouse that holds this table and another after it
InitTablesInfo ==
    /\ question \in Questions
    /\ limit = 1
    /\ catalog = <<NotesTable, ExportTable>>
    /\ DATABASE_COLLATION = None
    /\ traced = FALSE
    /\ Entered

SpecTablesInfo == InitTablesInfo /\ [][Next]_vars

(***************************************************************************)
(* get_database_collation, lines 86-98, called by the threads that serve   *)
(* requests in one process. The endpoints are plain functions, which the   *)
(* framework runs on a pool of threads; a thread may be suspended between  *)
(* any two of the statements below.                                        *)
(***************************************************************************)
\* the answers to the collation query in this process
ThreadCollationRows == CollationRows \cup { <<[Collation |-> Latin1_General_CS_AS]>> }

\* line 89: the cache is read and tested
T_Check(t) ==
    /\ tpc[t] = "idle"
    /\ tcalls[t] < MaxCalls
    /\ tpc' = [tpc EXCEPT ![t] = IF CacheEmpty(DATABASE_COLLATION) THEN "query" ELSE "return"]
    /\ tresult' = [tresult EXCEPT ![t] = [queried |-> FALSE, value |-> None]]
    /\ UNCHANGED <<tcalls, collationQueries, returned, DATABASE_COLLATION, requestVars,
                   historyVars, endpointVars, cleanVars, mockVars>>

\* lines 91-92: the collation query is executed, and raises or returns rows
T_Query(t) ==
    /\ tpc[t] = "query"
    /\ collationQueries' = collationQueries + 1
    /\ \/ tresult' = [tresult EXCEPT ![t] = [queried |-> TRUE,
                                             value |-> DetectedCollation(TRUE, <<>>)]]
       \/ \E rows \in ThreadCollationRows :
             tresult' = [tresult EXCEPT ![t] = [queried |-> TRUE,
                                                value |-> DetectedCollation(FALSE, rows)]]
    /\ tpc' = [tpc EXCEPT ![t] = "store"]
    /\ UNCHANGED <<tcalls, returned, DATABASE_COLLATION, requestVars,
                   historyVars, endpointVars, cleanVars, mockVars>>

\* lines 93 and 97: the cache is written
T_Store(t) ==
    /\ tpc[t] = "store"
    /\ DATABASE_COLLATION' = tresult[t].value
    /\ tpc' = [tpc EXCEPT ![t] = "return"]
    /\ UNCHANGED <<tcalls, tresult, collationQueries, returned, requestVars,
                   historyVars, endpointVars, cleanVars, mockVars>>

\* line 98: the cache is read again and returned
T_Return(t) ==
    /\ tpc[t] = "return"
    /\ returned' = Append(returned, [thread |-> t, value |-> DATABASE_COLLATION,
                                     queried |-> tresult[t].queried])
    /\ tcalls' = [tcalls EXCEPT ![t] = @ + 1]
    /\ tpc' = [tpc EXCEPT ![t] = "idle"]
    /\ UNCHANGED <<tresult, collationQueries, DATABASE_COLLATION, requestVars,
                   historyVars, endpointVars, cleanVars, mockVars>>

\* no request of the pipeline above runs in the process of the threads
RequestIdle ==
    /\ question = <<>>
    /\ limit = 1
    /\ catalog = <<>>
    /\ pc = "off"
    /\ eq = IdleCall
    /\ openConns = 0
    /\ lft = NoListing
    /\ available_tables = <<>>
    /\ gti = NoTablesInfo
    /\ prompt = <<>>
    /\ generated_sql = <<>>
    /\ results = <<>>
    /\ payload = NoPayload
    /\ llmCalls = <<>>
    /\ executed = <<>>
    /\ stages = <<>>
    /\ traced = FALSE
    /\ NoHistory

\* no endpoint is served
EndpointIdle ==
    /\ endpoint = "none"
    /\ epc = "off"
    /\ failed_ops = {}
    /\ inspected = NoColumns
    /\ response = NoResponse

\* the process has started: line 33 has set the cache to None
InitThreads ==
    /\ RequestIdle
    /\ EndpointIdle
    /\ NoCleaning
    /\ MockIdle
    /\ DATABASE_COLLATION = None
    /\ tpc = [t \in Threads |-> "idle"]
    /\ tcalls = [t \in Threads |-> 0]
    /\ tresult = [t \in Threads |-> [queried |-> FALSE, value |-> None]]
    /\ collationQueries = 0
    /\ returned = <<>>

NextThreads == \E t \in Threads : T_Check(t) \/ T_Query(t) \/ T_Store(t) \/ T_Return(t)

\* the threads call get_database_collation concurrently
SpecThreads == InitThreads /\ [][NextThreads]_vars

\* no other thread is inside a call
Alone(t) == \A u \in Threads \ {t} : tpc[u] = "idle"

NextSequential ==
    \E t \in Threads : Alone(t) /\ (T_Check(t) \/ T_Query(t) \/ T_Store(t) \/ T_Return(t))

\* the calls of get_database_collation are made one after another
SpecSequential == InitThreads /\ [][NextSequential]_vars

(***************************************************************************)
(* The HTTP endpoints, lines 442-613. Each step of a handler is one call   *)
(* of an operation above, which returns or raises.                         *)
(***************************************************************************)
Endpoints ==
    { "root", "get_tables", "smart_analyze_endpoint", "health_check", "list_all_tables",
      "direct_fabric_test", "inspect_table", "database_info", "debug_query" }

\* a request arrives at one of the endpoints
InitEndpoints ==
    /\ RequestIdle
    /\ ThreadsIdle
    /\ DATABASE_COLLATION \in {None, Latin1_General_CI_AS}
    /\ endpoint \in Endpoints
    /\ epc = "start"
    /\ failed_ops = {}
    /\ inspected = NoColumns
    /\ response = NoResponse
    /\ NoCleaning
    /\ MockIdle

\* the handler returns the body, or raises HTTPException with the status
Respond(status, body) ==
    /\ response' = [status |-> status, body |-> body]
    /\ epc' = "responded"

\* the operation has raised
Failed(op) == failed_ops' = failed_ops \cup {op}

\* lines 442-444
Root ==
    /\ endpoint = "root" /\ epc = "start"
    /\ Respond(200, "status")
    /\ UNCHANGED <<requestVars, DATABASE_COLLATION, threadVars, historyVars, cleanVars, mockVars, endpoint,
                   failed_ops, inspected>>

\* lines 446-453: a raising list_fabric_tables is answered with 500
GetTables ==
    /\ endpoint = "get_tables" /\ epc = "start"
    /\ \/ Failed("list_fabric_tables") /\ Respond(500, "detail")
       \/ UNCHANGED failed_ops /\ Respond(200, "tables")
    /\ UNCHANGED <<requestVars, DATABASE_COLLATION, threadVars, historyVars, cleanVars, mockVars, endpoint,
                   inspected>>

\* what smart_analyze_question returns: a payload after no failure, an error
\* payload (lines 317, 338, 352, 363, 434), or a payload without an error after
\* a failure that was caught on the way (lines 174, 232, 243, 253, 95, 385)
SmartAnalyzeResults ==
    { [payload |-> [question |-> <<>>, analysis |-> <<>>], failed |-> {}],
      [payload |-> [question |-> <<>>, error |-> "Analysis failed"],
       failed |-> {"smart_analyze_question"}],
      [payload |-> [question |-> <<>>, analysis |-> <<>>], failed |-> {"execute_query"}] }

\* lines 455-468, with smart_analyze_question as one step
SmartAnalyze ==
    /\ endpoint = "smart_analyze_endpoint" /\ epc = "start"
    /\ \E result \in SmartAnalyzeResults :
          /\ failed_ops' = failed_ops \cup result.failed
          /\ response' = SmartAnalyzeResponse(result.payload)
    /\ epc' = "responded"
    /\ UNCHANGED <<requestVars, DATABASE_COLLATION, threadVars, historyVars, cleanVars, mockVars, endpoint,
                   inspected>>

\* line 474: execute_query("SELECT 1")
HealthQuery ==
    /\ endpoint = "health_check" /\ epc = "start"
    /\ \/ Failed("execute_query") /\ Respond(500, "detail")
       \/ UNCHANGED <<failed_ops, response>> /\ epc' = "list"
    /\ UNCHANGED <<requestVars, DATABASE_COLLATION, threadVars, historyVars, cleanVars, mockVars, endpoint,
                   inspected>>

\* line 475
HealthList ==
    /\ endpoint = "health_check" /\ epc = "list"
    /\ \/ Failed("list_fabric_tables") /\ Respond(500, "detail")
       \/ UNCHANGED <<failed_ops, response>> /\ epc' = "collation"
    /\ UNCHANGED <<requestVars, DATABASE_COLLATION, threadVars, historyVars, cleanVars, mockVars, endpoint,
                   inspected>>

\* lines 88-98 as one step: the cache after a call of get_database_collation
\* whose query, if it is made, raises or returns the rows
CollationAfterCall(cached, exc, rows) ==
    IF CacheEmpty(cached) THEN DetectedCollation(exc, rows) ELSE cached

\* lines 476-481: get_database_collation catches what its query raises
HealthCollation ==
    /\ endpoint = "health_check" /\ epc = "collation"
    /\ \/ /\ CacheEmpty(DATABASE_COLLATION)
          /\ Failed("get_database_collation")
          /\ DATABASE_COLLATION' = CollationAfterCall(DATABASE_COLLATION, TRUE, <<>>)
       \/ \E rows \in CollationRows :
             /\ DATABASE_COLLATION' = CollationAfterCall(DATABASE_COLLATION, FALSE, rows)
             /\ UNCHANGED failed_ops
    /\ Respond(200, "healthy")
    /\ UNCHANGED <<requestVars, threadVars, historyVars, cleanVars, mockVars, endpoint, inspected>>

\* lines 485-497: a raising list_fabric_tables is answered with a body that
\* holds the error, returned as any other body
ListAllTables ==
    /\ endpoint = "list_all_tables" /\ epc = "start"
    /\ \/ Failed("list_fabric_tables") /\ Respond(200, "error")
       \/ UNCHANGED failed_ops /\ Respond(200, "tables")
    /\ UNCHANGED <<requestVars, DATABASE_COLLATION, threadVars, historyVars, cleanVars, mockVars, endpoint,
                   inspected>>

\* lines 503-506
TestQueries == <<"query_1", "query_2">>

\* lines 509-524: each test query is executed; one that raises is recorded as
\* FAILED and the loop goes on
DirectTestQuery ==
    /\ endpoint = "direct_fabric_test"
    /\ \E i \in 1..Len(TestQueries) :
          /\ epc = IF i = 1 THEN "start" ELSE TestQueries[i]
          /\ epc' = IF i < Len(TestQueries) THEN TestQueries[i + 1] ELSE "return"
          /\ Failed(TestQueries[i]) \/ UNCHANGED failed_ops
    /\ UNCHANGED <<requestVars, DATABASE_COLLATION, threadVars, historyVars, cleanVars, mockVars, endpoint,
                   inspected, response>>

\* lines 526-530
DirectTestReturn ==
    /\ endpoint = "direct_fabric_test" /\ epc = "return"
    /\ Respond(200, "results")
    /\ UNCHANGED <<requestVars, DATABASE_COLLATION, threadVars, historyVars, cleanVars, mockVars, endpoint,
                   failed_ops, inspected>>

\* lines 536-537: the schema lookup raises, or returns the columns of the table
InspectSchema ==
    /\ endpoint = "inspect_table" /\ epc = "start"
    /\ \/ Failed("get_table_schema") /\ Respond(500, "detail") /\ UNCHANGED inspected
       \/ \E n \in 0..MaxColumns :
             /\ inspected' = [columns |-> n, col |-> 1]
             /\ epc' = "sample"
             /\ UNCHANGED <<failed_ops, response>>
    /\ UNCHANGED <<requestVars, DATABASE_COLLATION, threadVars, historyVars, cleanVars, mockVars, endpoint>>

\* lines 539-540
InspectSample ==
    /\ endpoint = "inspect_table" /\ epc = "sample"
    /\ \/ Failed("sample_query") /\ Respond(500, "detail")
       \/ UNCHANGED <<failed_ops, response>> /\ epc' = "columns"
    /\ UNCHANGED <<requestVars, DATABASE_COLLATION, threadVars, historyVars, cleanVars, mockVars, endpoint,
                   inspected>>

\* lines 544-558: the distinct values and the counts of the next column; when
\* either query raises, the column gets the error text and the loop goes on
InspectColumn ==
    /\ endpoint = "inspect_table" /\ epc = "columns"
    /\ inspected.col <= inspected.columns
    /\ \/ \E q \in {"unique_query", "count_query"} : Failed(q)
       \/ UNCHANGED failed_ops
    /\ inspected' = [inspected EXCEPT !.col = @ + 1]
    /\ UNCHANGED <<requestVars, DATABASE_COLLATION, threadVars, historyVars, cleanVars, mockVars, endpoint,
                   epc, response>>

\* lines 560-566
InspectReturn ==
    /\ endpoint = "inspect_table" /\ epc = "columns"
    /\ inspected.col > inspected.columns
    /\ Respond(200, "table")
    /\ UNCHANGED <<requestVars, DATABASE_COLLATION, threadVars, historyVars, cleanVars, mockVars, endpoint,
                   failed_ops, inspected>>

\* lines 570-583
DatabaseInfo ==
    /\ endpoint = "database_info" /\ epc = "start"
    /\ \/ Failed("execute_query") /\ Respond(500, "detail")
       \/ UNCHANGED failed_ops /\ Respond(200, "collation")
    /\ UNCHANGED <<requestVars, DATABASE_COLLATION, threadVars, historyVars, cleanVars, mockVars, endpoint,
                   inspected>>

\* lines 589 and 612-613: whatever debug_query raises is answered with a body
\* that holds the error, returned as any other body
DebugTablesInfo ==
    /\ endpoint = "debug_query" /\ epc = "start"
    /\ \/ Failed("get_tables_info") /\ Respond(200, "error")
       \/ UNCHANGED <<failed_ops, response>> /\ epc' = "prompt"
    /\ UNCHANGED <<requestVars, DATABASE_COLLATION, threadVars, historyVars, cleanVars, mockVars, endpoint,
                   inspected>>

\* line 591: build_smart_prompt reads the collation (line 261), and line 103
\* raises for a collation that is None
DebugPrompt ==
    /\ endpoint = "debug_query" /\ epc = "prompt"
    /\ \E exc \in BOOLEAN, rows \in CollationRows :
          /\ exc => (rows = <<>> /\ CacheEmpty(DATABASE_COLLATION))
          /\ DATABASE_COLLATION' = CollationAfterCall(DATABASE_COLLATION, exc, rows)
          /\ IF DATABASE_COLLATION' = None
             THEN Failed("build_smart_prompt") /\ Respond(200, "error")
             ELSE /\ failed_ops' = IF exc THEN failed_ops \cup {"get_database_collation"}
                                   ELSE failed_ops
                  /\ epc' = "ask"
                  /\ UNCHANGED response
    /\ UNCHANGED <<requestVars, threadVars, historyVars, cleanVars, mockVars, endpoint, inspected>>

\* lines 592-593
DebugAsk ==
    /\ endpoint = "debug_query" /\ epc = "ask"
    /\ \/ Failed("ask_llm") /\ Respond(200, "error")
       \/ UNCHANGED <<failed_ops, response>> /\ epc' = "list_1"
    /\ UNCHANGED <<requestVars, DATABASE_COLLATION, threadVars, historyVars, cleanVars, mockVars, endpoint,
                   inspected>>

\* lines 600-601: the tables are listed twice for the body
DebugList ==
    /\ endpoint = "debug_query" /\ epc \in {"list_1", "list_2"}
    /\ \/ Failed("list_fabric_tables") /\ Respond(200, "error")
       \/ /\ UNCHANGED failed_ops
          /\ IF epc = "list_1" THEN epc' = "list_2" /\ UNCHANGED response
             ELSE Respond(200, "debug_info")
    /\ UNCHANGED <<requestVars, DATABASE_COLLATION, threadVars, historyVars, cleanVars, mockVars, endpoint,
                   inspected>>

NextEndpoints ==
    \/ Root \/ GetTables \/ SmartAnalyze \/ HealthQuery \/ HealthList \/ HealthCollation
    \/ ListAllTables \/ DirectTestQuery \/ DirectTestReturn
    \/ InspectSchema \/ InspectSample \/ InspectColumn \/ InspectReturn
    \/ DatabaseInfo \/ DebugTablesInfo \/ DebugPrompt \/ DebugAsk \/ DebugList

SpecEndpoints == InitEndpoints /\ [][NextEndpoints]_vars

(***************************************************************************)
(* clean_generated_sql, lines 105-126, on its own.                         *)
(***************************************************************************)
\* what a text may open with: a fence, a fence line, the prefixes in one letter
\* case or another, a blank
Leads ==
    { FENCE,
      FENCE \o <<"s","q","l","\n">>,
      <<"s","q","l",":"," ">>,
      <<"S","q","l",":">>,
      <<"Q","u","e","r","y",":"," ">>,
      <<"q","u","e","r","y",":">>,
      <<" ">> }

Bodies ==
    { <<"S","E","L","E","C","T"," ","1">>,
      <<"s","e","l","e","c","t"," ","*"," ","F","R","O","M"," ","t">>,
      <<"T","O","P"," ","5"," ","*"," ","F","R","O","M"," ","t">>,
      <<"N","a","m","e"," ","f","r","o","m"," ","t">>,
      <<"N","a","m","e","\n","F","R","O","M"," ","t">> }

\* what a text may close with
Trails ==
    { <<>>, FENCE, <<"\n">> \o FENCE, <<"\n">> \o FENCE \o <<"\n">>, <<Backtick, " ">> }

RECURSIVE Stacks(_)
\* up to n leads, one after another
Stacks(n) ==
    IF n = 0 THEN {<<>>}
    ELSE Stacks(n - 1) \cup {lead \o rest : lead \in Leads, rest \in Stacks(n - 1)}

RawTexts == {stack \o body \o trail : stack \in Stacks(MaxStack), body \in Bodies, trail \in Trails}

\* a text is about to be cleaned
InitClean ==
    /\ RequestIdle
    /\ ThreadsIdle
    /\ EndpointIdle
    /\ DATABASE_COLLATION = None
    /\ raw_text \in RawTexts
    /\ cleaned_text = None
    /\ MockIdle

\* lines 105-126
Clean ==
    /\ cleaned_text = None
    /\ cleaned_text' = clean_generated_sql(raw_text)
    /\ UNCHANGED <<requestVars, DATABASE_COLLATION, threadVars, historyVars, endpointVars,
                   mockVars, raw_text>>

NextClean == Clean

SpecClean == InitClean /\ [][NextClean]_vars

(***************************************************************************)
(* The mock Flask app, frabicchatbot.py lines 24-175. A request is served  *)
(* from its arrival to its response in one step.                           *)
(***************************************************************************)
\* frabicchatbot.py line 130: the limit of a body that gives none
LimitDefault == 10

\* frabicchatbot.py lines 144-145
LimitCeiling == 1000000

\* a value of the JSON body: an integer, a float (n is ten times the number), a
\* boolean (n is 0 or 1), a string, or one of null, list, nan, inf, missing
Json(kind, n, text) == [kind |-> kind, n |-> n, text |-> text]

\* what the body may give for "limit"
LimitValues ==
    {Json(kind, 0, <<>>) : kind \in {"missing", "null", "list", "nan", "inf"}}
    \cup {Json("int", n, <<>>) : n \in {0 - 1, 0, 1, 5, LimitCeiling, LimitCeiling + 1}}
    \cup {Json("float", n, <<>>) : n \in {0 - 5, 5, 25, 50, 10 * LimitCeiling + 19}}
    \cup {Json("bool", n, <<>>) : n \in {0, 1}}
    \cup {Json("str", 0, text) : text \in {<<>>, <<"7">>, <<" ", "7", " ">>, <<"2", ".", "5">>,
                                          <<"a", "b", "c">>, <<"-", "3">>}}

\* the JSON bodies of the analyze requests; a key that is missing reads as the
\* empty string at lines 128 and 129
AnalyzeBodies ==
    [empty : {FALSE},
     question : {<<>>, <<" ">>, <<"t", "o", "p">>},
     table : {<<>>, <<"sales.orders">>},
     limit : LimitValues]
    \cup {[empty |-> TRUE, question |-> <<>>, table |-> <<>>, limit |-> Json("missing", 0, <<>>)]}

\* only digits, and at least one
IsDigits(text) == text # <<>> /\ \A k \in 1..Len(text) : IsDigit(text[k])

\* Python's int() of a string: blanks around an optional sign and digits
IntOfText(text) ==
    LET t == Strip(text)
        signed == t # <<>> /\ Head(t) \in {"+", "-"}
        digits == IF signed THEN Tail(t) ELSE t
    IN  IF IsDigits(digits)
        THEN [exc |-> "none",
              n |-> IF signed /\ Head(t) = "-" THEN 0 - ParseNat(digits, 0)
                    ELSE ParseNat(digits, 0)]
        ELSE [exc |-> "ValueError", n |-> 0]

\* Python's int() of a JSON value: the integer, or the exception it raises. A
\* float is cut towards zero; infinity raises OverflowError
IntOf(value) ==
    CASE value.kind \in {"int", "bool"} -> [exc |-> "none", n |-> value.n]
      [] value.kind = "float" ->
             [exc |-> "none",
              n |-> IF value.n >= 0 THEN value.n \div 10 ELSE 0 - ((0 - value.n) \div 10)]
      [] value.kind = "str" -> IntOfText(value.text)
      [] value.kind = "nan" -> [exc |-> "ValueError", n |-> 0]
      [] value.kind = "inf" -> [exc |-> "OverflowError", n |-> 0]
      [] OTHER -> [exc |-> "TypeError", n |-> 0]

\* frabicchatbot.py line 130 and lines 139-147: the limit after validation, or
\* the exception that the except of line 146 does not catch
ValidatedLimit(value) ==
    LET limit_in == IF value.kind = "missing" THEN Json("int", LimitDefault, <<>>) ELSE value
        converted == IntOf(limit_in)
    IN  IF converted.exc \in {"ValueError", "TypeError"}
        THEN [exc |-> "none", n |-> LimitDefault]
        ELSE IF converted.exc # "none" THEN converted
        ELSE [exc |-> "none",
              n |-> IF converted.n < 1 THEN LimitDefault
                    ELSE IF converted.n > LimitCeiling THEN LimitCeiling
                    ELSE converted.n]

MockRespond(status, body) == mock_response' = [status |-> status, body |-> body]

\* frabicchatbot.py lines 90-102 and 43-53: test_connection marks the connector
\* connected; nothing in its try can raise
Mock_health_check ==
    /\ mock_request' = [endpoint |-> "health_check"]
    /\ fabric_connector' = [fabric_connector EXCEPT !.is_connected = TRUE]
    /\ mock_executed' = <<>>
    /\ MockRespond(200, [status |-> "healthy", connected |-> TRUE])
    /\ UNCHANGED <<requestVars, DATABASE_COLLATION, threadVars, historyVars, endpointVars,
                   cleanVars>>

\* frabicchatbot.py lines 104-116 and 55-59
Mock_get_tables ==
    /\ mock_request' = [endpoint |-> "get_tables"]
    /\ LET tables == IF ~fabric_connector.is_connected THEN <<>>
                      ELSE fabric_connector.available_tables
       IN  MockRespond(200, [tables |-> tables, count |-> Len(tables)])
    /\ mock_executed' = <<>>
    /\ UNCHANGED <<requestVars, DATABASE_COLLATION, threadVars, historyVars, endpointVars,
                   cleanVars, fabric_connector>>

\* frabicchatbot.py lines 118-161 and 61-80
Mock_analyze_data ==
    \E data \in AnalyzeBodies :
        /\ mock_request' = [endpoint |-> "analyze_data", data |-> data]
        /\ LET question_in == Strip(data.question)
               table_in == Strip(data.table)
               limit_in == ValidatedLimit(data.limit)
           IN  IF data.empty
               THEN MockRespond(400, [error |-> "No data provided"])
                    /\ mock_executed' = <<>>
               ELSE IF question_in = <<>>
               THEN MockRespond(400, [error |-> "Question is required"])
                    /\ mock_executed' = <<>>
               ELSE IF table_in = <<>>
               THEN MockRespond(400, [error |-> "Table selection is required"])
                    /\ mock_executed' = <<>>
               ELSE IF limit_in.exc # "none"
               THEN MockRespond(500, [error |-> "Analysis failed"])
                    /\ mock_executed' = <<>>
               ELSE /\ mock_executed' = <<[table |-> table_in, question |-> question_in,
                                           limit |-> limit_in.n]>>
                    /\ MockRespond(200, [analysis |-> [table |-> table_in,
                                                       rows |-> limit_in.n],
                                         question |-> question_in,
                                         table |-> table_in,
                                         limit |-> limit_in.n])
        /\ UNCHANGED <<requestVars, DATABASE_COLLATION, threadVars, historyVars,
                       endpointVars, cleanVars, fabric_connector>>

\* frabicchatbot.py lines 163-175
Mock_disconnect ==
    /\ mock_request' = [endpoint |-> "disconnect"]
    /\ fabric_connector' = [is_connected |-> FALSE, available_tables |-> <<>>]
    /\ mock_executed' = <<>>
    /\ MockRespond(200, [status |-> "disconnected"])
    /\ UNCHANGED <<requestVars, DATABASE_COLLATION, threadVars, historyVars, endpointVars,
                   cleanVars>>

\* the mock app has started
InitMock ==
    /\ RequestIdle
    /\ ThreadsIdle
    /\ EndpointIdle
    /\ DATABASE_COLLATION = None
    /\ raw_text = <<>>
    /\ cleaned_text = None
    /\ MockIdle

NextMock == Mock_health_check \/ Mock_get_tables \/ Mock_analyze_data \/ Mock_disconnect

\* the mock app serves health, tables, analyze and disconnect requests in any order
SpecMock == InitMock /\ [][NextMock]_vars

(***************************************************************************)
(* The claims.                                                             *)
(***************************************************************************)
\* the generation calls of the request that the LLM answered, in order
Generated == SelectSeq(llmCalls, LAMBDA c : c.kind = "generate" /\ ~c.raised)

\* the generation calls of the request, answered or not
GenerationCalls == SelectSeq(llmCalls, LAMBDA c : c.kind = "generate")

BeginsWithSelect(text) == Len(text) >= 6 /\ Upper(SubSeq(text, 1, 6)) = SELECT

SentinelText(text) == Upper(Strip(text)) = INSUFFICIENT_DATA

WasExecuted(text) == \E e \in 1..Len(executed) : executed[e] = text

HasError == "error" \in DOMAIN payload

\* a bracketed qualified name of a listed table occurs in the text, letter case ignored
NamesKnownTable(text) ==
    \E k \in 1..Len(available_tables) :
        Contains(Lower(text),
                 Lower(<<"[">> \o available_tables[k].schema \o <<"]", ".", "[">>
                       \o available_tables[k].name \o <<"]">>))

\* C1 as stated: every answer of the LLM, the first or the relaxed one, whose
\* cleaned text does not begin with SELECT makes the request return an error
\* payload, and that text is never handed to execute_query.
C1_EveryNonSelectIsAnError ==
    \A k \in 1..Len(Generated) :
        ~BeginsWithSelect(Generated[k].cleaned) =>
            /\ ~WasExecuted(Generated[k].cleaned)
            /\ pc = "done" => HasError

\* C1 as amended: the same for every answer but a first answer that is the
\* INSUFFICIENT_DATA sentinel, which the relaxed generation answers instead.
C1_NonSelectRejected ==
    \A k \in 1..Len(Generated) :
        ~BeginsWithSelect(Generated[k].cleaned) =>
            /\ ~WasExecuted(Generated[k].cleaned)
            /\ (pc = "done" /\ ~(k = 1 /\ SentinelText(Generated[k].cleaned))) => HasError

\* C1: the relaxed answer was not a SELECT statement and the request ended with
\* the error of line 340
C1_Witness ==
    /\ pc = "done"
    /\ Len(Generated) = 2
    /\ ~BeginsWithSelect(Generated[2].cleaned)
    /\ ~SentinelText(Generated[2].cleaned)
    /\ HasError
    /\ payload.error = "Generated query is not a SELECT statement"

\* C2: a generated SQL that names none of the listed tables as [schema].[table],
\* letter case ignored, ends the request with an error payload, and no SQL is
\* handed to execute_query that names none of them.
C2_UnknownTableRejected ==
    /\ \A e \in 1..Len(executed) : NamesKnownTable(executed[e])
    /\ (pc = "done" /\ Len(Generated) > 0 /\ ~NamesKnownTable(generated_sql)) => HasError

\* C2: an answer that names no listed table was refused with the error of line 354
C2_Witness ==
    /\ pc = "done"
    /\ Len(Generated) > 0
    /\ BeginsWithSelect(generated_sql)
    /\ ~NamesKnownTable(generated_sql)
    /\ executed = <<>>
    /\ HasError
    /\ payload.error = "Generated query references invalid tables"

\* the word TOP stands in the text, in any letter case
HasTopWord(text) ==
    \E i \in 1..(Len(text) - 2) :
        /\ Upper(SubSeq(text, i, i + 2)) = TOP
        /\ i > 1 => ~IsWordChar(text[i - 1])
        /\ i + 3 <= Len(text) => ~IsWordChar(text[i + 3])

\* the cleaned text of the answer the request went on with
LastCleaned == Generated[Len(Generated)].cleaned

\* C3: once the limit-injection step has run on a cleaned SQL that begins with
\* SELECT in any letter case and has no TOP clause, the SQL is the cleaned text
\* with TOP and the limit put right after its first SELECT, and nothing else
\* changed.
C3_LimitInjected ==
    (/\ Len(Generated) > 0
     /\ \E n \in 1..Len(stages) : stages[n] = "limit_injected"
     /\ BeginsWithSelect(LastCleaned)
     /\ ~HasTopWord(LastCleaned))
    => generated_sql = SubSeq(LastCleaned, 1, 6) \o <<" ">> \o TOP \o <<" ">> \o Str(limit)
                       \o SubSeq(LastCleaned, 7, Len(LastCleaned))

\* C4: every SQL handed to execute_query at line 360 has a TOP n directly after
\* its leading SELECT.
C4_ExecutedIsBounded ==
    \A e \in 1..Len(executed) : TopBound(executed[e]) # NoBound

\* C5: the results a successful request returns hold at most as many records as
\* the row limit of the request.
C5_ResultsWithinLimit ==
    (pc = "done" /\ "results" \in DOMAIN payload) =>
        /\ Len(payload.results) <= limit
        /\ payload.result_count <= limit

\* C6: when a call of execute_query that obtained a connection has returned or
\* raised, the connection is closed.
C6_ConnectionClosed ==
    (eq.pc = "done" /\ eq.conn # "none") => eq.conn = "closed"

\* C7: at every point of a request at most one of the connections it opened is
\* open, and none is open when the request has completed.
C7_OneConnectionAtATime ==
    /\ openConns <= 1
    /\ pc = "done" => openConns = 0

\* C8: with the calls made one after another, no call of get_database_collation
\* after the first executes the collation query.
C8_LaterCallsAreCached ==
    \A k \in 2..Len(returned) : ~returned[k].queried

\* C9: the collation query is executed at most once in the process, however the
\* calls of the threads interleave.
C9_QueriedAtMostOnce == collationQueries <= 1

\* C10: a first answer that is the sentinel is followed by exactly one more
\* generation call, made with the relaxed prompt, which differs from the prompt;
\* there is never a third; and a second sentinel ends the request with an error.
C10_OneRelaxedRetry ==
    /\ Len(GenerationCalls) <= 2
    /\ Len(GenerationCalls) = 2 =>
          /\ ~GenerationCalls[1].raised
          /\ SentinelText(GenerationCalls[1].cleaned)
          /\ GenerationCalls[2].prompt # GenerationCalls[1].prompt
          /\ Contains(GenerationCalls[2].prompt, BestGuess)
    /\ (/\ pc \in {"validate", "executed", "suggest", "summarize", "except", "done"}
        /\ Len(Generated) > 0
        /\ SentinelText(Generated[1].cleaned)) => Len(GenerationCalls) = 2
    /\ (pc = "done" /\ Len(Generated) = 2 /\ SentinelText(Generated[2].cleaned)) =>
          /\ HasError
          /\ executed = <<>>
          /\ Len(llmCalls) = 2

\* C10: the sentinel was answered twice and the request ended with an error
C10_Witness ==
    /\ pc = "done"
    /\ Len(Generated) = 2
    /\ SentinelText(Generated[1].cleaned)
    /\ SentinelText(Generated[2].cleaned)
    /\ GenerationCalls[2].prompt # GenerationCalls[1].prompt
    /\ HasError

\* the summarization calls of the request
SummaryCalls == SelectSeq(llmCalls, LAMBDA c : c.kind = "summarize")

\* the LLM was asked at most twice for SQL, twice only after the sentinel, and at
\* most once for the summary; the SQL was executed at most once; and no call of
\* ask_llm follows one that raised
NoLlmRetry ==
    /\ Len(GenerationCalls) <= 2
    /\ Len(GenerationCalls) = 2 =>
          /\ ~GenerationCalls[1].raised
          /\ SentinelText(GenerationCalls[1].cleaned)
    /\ Len(SummaryCalls) <= 1
    /\ Len(executed) <= 1
    /\ \A k \in 1..(Len(llmCalls) - 1) : ~llmCalls[k].raised

\* a call of execute_query begins for a query that has raised in this request
AttemptedAgain == eq.pc = "connect" /\ eq.query \in failed_queries

ExecutionRaised == \E q \in failed_queries : q.kind = "generated"

\* schema.table of every base table of the warehouse, in the order of the catalog
CatalogNames == [k \in 1..Len(catalog) |-> catalog[k].schema \o <<".">> \o catalog[k].name]

\* C12: when the execution of the validated SQL has raised, the SQL is not
\* executed again and no summary is asked of the LLM, and the request returns a
\* payload with an error, the very SQL that was executed, and the names of the
\* tables of the catalog.
C12_ExecutionFailureReported ==
    ExecutionRaised =>
        /\ Len(executed) = 1
        /\ SummaryCalls = <<>>
        /\ pc \in {"executed", "done"}
        /\ pc = "done" =>
              /\ HasError
              /\ payload.generated_sql = executed[1]
              /\ payload.available_tables = CatalogNames

\* C12: the execution raised and the request returned the error of line 365
C12_Witness ==
    /\ pc = "done"
    /\ ExecutionRaised
    /\ HasError
    /\ payload.error = "SQL execution failed"
    /\ payload.generated_sql = executed[1]

\* C13: when get_fabric_connection has raised at some point of the request, the
\* payload smart_analyze_question returns has an error and a suggestion, and the
\* endpoint answers with an HTTP error status.
C13_ConnectionFailureReported ==
    connect_failed =>
        /\ pc = "done" => (HasError /\ "suggestion" \in DOMAIN payload)
        /\ epc = "responded" => response.status \in {400, 500}

\* C14: an endpoint one of whose operations raised answers with status 400 or
\* 500.
C14_FailuresHaveErrorStatus ==
    (epc = "responded" /\ failed_ops # {}) => response.status \in {400, 500}

RECURSIVE FirstWord(_)
\* the letters, digits and underscores a text begins with
FirstWord(text) ==
    IF text # <<>> /\ IsWordChar(Head(text))
    THEN <<Head(text)>> \o FirstWord(Tail(text))
    ELSE <<>>

\* the first word of the question, after any leading whitespace and in any
\* letter case, is list, show, display, which or what
BeginsWithListingWord(q) ==
    Lower(FirstWord(LStripSet(q, Whitespace))) \in
        { <<"l","i","s","t">>, <<"s","h","o","w">>, <<"d","i","s","p","l","a","y">>,
          <<"w","h","i","c","h">>, <<"w","h","a","t">> }

ListingTemplate == "Based on this data, provide a formatted list of the results"

DirectTemplate == "Based on this data, answer the question directly and concisely:"

\* C15: once the generated SQL has returned rows, the LLM is asked for the
\* summary exactly once, never otherwise, with the numbered-list template when
\* the question begins with a listing word and with the direct-answer template
\* when it does not.
C15_TemplateFollowsQuestion ==
    /\ Len(SummaryCalls) <= 1
    /\ SummaryCalls # <<>> => (results # <<>> /\ Len(executed) = 1)
    /\ (results # <<>> /\ pc \in {"except", "done"}) => Len(SummaryCalls) = 1
    /\ \A k \in 1..Len(SummaryCalls) :
          SummaryCalls[k].prompt[1] = IF BeginsWithListingWord(question)
                                      THEN ListingTemplate
                                      ELSE DirectTemplate

\* C15: a question that is a longer word beginning with list was summarized with
\* the direct-answer template
C15_Witness ==
    /\ pc = "done"
    /\ ~HasError
    /\ StartsWith(question, <<"l","i","s","t","i","n","g">>)
    /\ Len(SummaryCalls) = 1
    /\ SummaryCalls[1].prompt[1] = DirectTemplate

\* the entries are those of the first rows of the catalog, one each and in order
ListsCatalogRows(tables) ==
    /\ Len(tables) <= Len(catalog)
    /\ \A k \in 1..Len(tables) :
          /\ tables[k].schema = catalog[k].schema
          /\ tables[k].name = catalog[k].name

\* C16: while list_fabric_tables runs it has one entry for each row it has gone
\* through, in the order of the metadata query, whether the probe of the row
\* succeeded or raised; it returns one entry for every row.
C16_EveryTableListed ==
    /\ pc \in {"lft_loop", "lft_probed", "lft_return"} =>
          /\ lft.results = catalog
          /\ Len(lft.tables) = lft.i - 1
          /\ ListsCatalogRows(lft.tables)
    /\ pc = "lft_return" => Len(lft.tables) = Len(catalog)
    /\ available_tables # <<>> =>
          (Len(available_tables) = Len(catalog) /\ ListsCatalogRows(available_tables))

\* C16: the listing of two tables returns both, after a probe that raised and
\* left its connection open
C16_Witness ==
    /\ pc = "lft_return"
    /\ lft.ret = "smart_analyze_question"
    /\ openConns = 1
    /\ Len(catalog) = 2
    /\ Len(lft.tables) = 2

\* the probe of the row list_fabric_tables stands at has raised
ProbeRaised == pc = "lft_probed" /\ eq.pc = "done" /\ eq.exc

\* C17: the entry that is listed for a table whose probe raised differs from
\* the entry the table is listed with when its probe succeeds.
C17_EntryRecordsProbe ==
    ProbeRaised =>
        TableEntry(lft.results[lft.i], None) #
            TableEntry(lft.results[lft.i],
                       Bracketed(lft.results[lft.i].schema, lft.results[lft.i].name))

\* the names of the string columns among the columns, in order
StringColumnNames(cols) ==
    LET strings == SelectSeq(cols, LAMBDA c : c.DATA_TYPE \in {"varchar", "nvarchar", "char", "nchar"})
    IN  [k \in 1..Len(strings) |-> strings[k].COLUMN_NAME]

\* the column names of the unique values, in order
UniqueValueNames(unique_values) ==
    [k \in 1..Len(unique_values) |-> unique_values[k].column]

\* get_tables_info is running its loop over the tables
InTablesInfo == pc \in {"gti_loop", "gti_schema", "gti_sample", "gti_columns", "gti_unique"}

\* C18: in get_tables_info every string column the loop has passed has its
\* values or the error placeholder, whatever the queries of the columns before
\* it did; the block of a table names all its string columns; and the call
\* cannot be left before it has added one block for every listed table, in
\* order.
C18_ColumnErrorsAreLocal ==
    /\ pc \in {"gti_columns", "gti_unique"} =>
          /\ gti.columns = catalog[gti.i].columns
          /\ UniqueValueNames(gti.unique_values) =
                 StringColumnNames(SubSeq(gti.columns, 1, gti.j - 1))
    /\ InTablesInfo => Len(gti.tables_info) = gti.i - 1
    /\ ~InTablesInfo => Len(gti.tables_info) = Len(gti.all_tables)
    /\ \A k \in 1..Len(gti.tables_info) :
          /\ gti.tables_info[k].table =
                 <<"[">> \o catalog[k].schema \o <<"]", ".", "[">> \o catalog[k].name \o <<"]">>
          /\ gti.tables_info[k].available =>
                 UniqueValueNames(gti.tables_info[k].unique_values) =
                     StringColumnNames(catalog[k].columns)

\* C18: the distinct values of the first string column failed, the second
\* string column has its values, and the table after has its block
C18_Witness ==
    /\ pc = "build_prompt"
    /\ Len(gti.tables_info) = 2
    /\ gti.tables_info[1].available
    /\ gti.tables_info[1].unique_values =
           << [column |-> "Name", value |-> "Error"], [column |-> "Note", value |-> "values"] >>
    /\ gti.tables_info[2].available

\* the steps of a generated text, in the order the claim gives them
ClaimedOrder ==
    <<"raw", "cleaned", "limit_injected", "select_checked", "table_checked", "validated",
      "executed", "summarized">>

\* the steps in the order of lines 325-431
CodeOrder ==
    <<"raw", "cleaned", "select_checked", "limit_injected", "table_checked", "validated",
      "executed", "summarized">>

\* s is the beginning of t
IsPrefix(s, t) == Len(s) <= Len(t) /\ SubSeq(t, 1, Len(s)) = s

\* the steps so far follow the order, after a first answer that was only cleaned
\* or without one
FollowsOrder(order) ==
    \/ IsPrefix(stages, order)
    \/ (IsPrefix(<<"raw", "cleaned">>, stages) /\ IsPrefix(SubSeq(stages, 3, Len(stages)), order))

HasStage(name) == \E n \in 1..Len(stages) : stages[n] = name

\* what the steps mean: the limit-injected text is the cleaned text, with TOP and
\* the limit after a leading upper-case SELECT when it holds no TOP at all; the
\* validated text is that text, begins with SELECT and names a listed table;
\* only the validated text is executed; a summary is asked for only after the
\* execution
StagesMean ==
    /\ HasStage("limit_injected") =>
          /\ (~Contains(Upper(LastCleaned), TOP) /\ StartsWith(LastCleaned, SELECT)) =>
                 generated_sql = SELECT \o <<" ">> \o TOP \o <<" ">> \o Str(limit)
                                 \o SubSeq(LastCleaned, 7, Len(LastCleaned))
          /\ Contains(Upper(LastCleaned), TOP) => generated_sql = LastCleaned
    /\ HasStage("validated") =>
          /\ BeginsWithSelect(generated_sql)
          /\ NamesKnownTable(generated_sql)
          /\ executed = <<generated_sql>>
    /\ executed # <<>> => HasStage("validated")
    /\ SummaryCalls # <<>> => HasStage("executed")

\* C19 as stated: the generated text goes through the steps raw, cleaned of
\* fencing and prefixes, limit-injected, checked for SELECT and for a known
\* table, validated, in that order, so that both checks see the limit-injected
\* SQL; it is executed only when validated and summarized only after execution.
C19_ChecksAfterInjection == FollowsOrder(ClaimedOrder) /\ StagesMean

\* C19 as amended: the same with the SELECT check before the limit injection:
\* it sees the cleaned text, and only the check for a known table sees the
\* limit-injected SQL.
C19_SelectCheckBeforeInjection ==
    /\ FollowsOrder(CodeOrder)
    /\ StagesMean
    /\ (pc = "done" /\ HasStage("select_checked") /\ ~HasStage("limit_injected")) =>
          (HasError /\ payload.generated_sql = LastCleaned)

\* C19: a relaxed answer went through every step, the limit was injected, and
\* the request completed
C19_Witness ==
    /\ pc = "done"
    /\ stages = <<"raw", "cleaned">> \o CodeOrder
    /\ generated_sql # LastCleaned
    /\ ~HasError

EndsWith(text, suffix) ==
    Len(text) >= Len(suffix) /\ SubSeq(text, Len(text) - Len(suffix) + 1, Len(text)) = suffix

\* C20: the text clean_generated_sql returns does not begin with a code fence
\* nor, in any letter case, with one of the prefixes, and does not end with a
\* code fence, however the markers and prefixes were stacked in the raw text.
C20_NoFenceNoPrefix ==
    cleaned_text # None =>
        /\ ~StartsWith(cleaned_text, FENCE)
        /\ \A k \in 1..Len(prefixes) : ~StartsWith(Lower(cleaned_text), Lower(prefixes[k]))
        /\ ~EndsWith(cleaned_text, FENCE)

\* lines 107-118: the text after fence and prefix stripping
Stripped(sql_text) ==
    RStripSet(Strip(StripPrefixes(StripFence(Strip(sql_text)), prefixes)), {Backtick})

\* a bare column list followed by FROM and what is selected from, on one line
\* or on several
IsBareFragment(sql) ==
    /\ sql # <<>>
    /\ IsNameChar(sql[1])
    /\ ~StartsWith(Upper(sql), SELECT)
    /\ \E i \in 2..(Len(sql) - 4) :
          /\ Upper(SubSeq(sql, i, i + 3)) = FROM
          /\ sql[i + 4] \in Whitespace

\* C21: when the text left after fence and prefix stripping begins with TOP and
\* not with SELECT, or is a bare column list followed by FROM (FROM may stand on
\* a later line), clean_generated_sql returns SELECT, a blank and that text; a
\* text that already begins with SELECT is returned as it is.
C21_SelectPrepended ==
    cleaned_text # None =>
        LET sql == Stripped(raw_text)
            sql_upper == Upper(sql)
        IN  /\ (\/ StartsWith(sql_upper, TOP \o <<" ">>) /\ ~StartsWith(sql_upper, SELECT)
                \/ IsBareFragment(sql))
               => cleaned_text = SELECT \o <<" ">> \o sql
            /\ StartsWith(sql_upper, SELECT) => cleaned_text = sql

\* lines 261-298 for one question, one tables_info and one limit: what
\* build_smart_prompt gives a caller whose get_database_collation returned the
\* collation; None has no upper() and the call raises
BuiltPrompt(collation) ==
    IF collation = None
    THEN [raised |-> TRUE, text |-> <<>>]
    ELSE [raised |-> FALSE,
          text |-> PromptText(<<"l","i","s","t"," ","t">>, <<>>, 1, CaseInsensitive(collation))]

\* C22: two calls of build_smart_prompt that a thread of the process makes one
\* after the other with the same question, tables_info and limit give the same
\* prompt text, whatever the other threads did in between and whatever the
\* collation query answered.
C22_SamePromptForSameArguments ==
    \A i, j \in 1..Len(returned) :
        returned[i].thread = returned[j].thread
            => BuiltPrompt(returned[i].value) = BuiltPrompt(returned[j].value)

\* line 360 has returned without raising, and with no row
ExecutedNoRows == HasStage("executed") /\ results = <<>>

\* C23: the LLM is asked for a summary only after the generated SQL was executed
\* without raising and returned a row; a request whose SQL returned no row ends
\* with no summary call and a payload that holds analysis and suggestions and no
\* error, which the endpoint answers with status 200.
C23_SummaryOnlyAfterRows ==
    /\ SummaryCalls # <<>> => HasStage("executed") /\ results # <<>>
    /\ (pc = "done" /\ ExecutedNoRows) =>
          /\ SummaryCalls = <<>>
          /\ {"analysis", "suggestions"} \subseteq DOMAIN payload
          /\ ~HasError
    /\ (epc = "responded" /\ ExecutedNoRows) => response.status = 200

\* the listing of line 315 has returned, not raised, and has returned no table
ListedNothing ==
    /\ pc # "start"
    /\ lft.ret # "smart_analyze_question"
    /\ available_tables = <<>>

\* C24: when the listing of line 315 returns no table, the request ends with an
\* error payload, asks the LLM nothing, reads no schema and no sample, and
\* executes no generated SQL.
C24_NoTablesEndsRequest ==
    ListedNothing =>
        /\ pc \in {"listed", "done"}
        /\ eq = IdleCall
        /\ llmCalls = <<>>
        /\ executed = <<>>
        /\ gti = NoTablesInfo
        /\ pc = "done" => HasError /\ payload.question = question

\* the listing returned no table, without raising, and the request has ended
C24_Witness ==
    /\ pc = "done"
    /\ catalog = <<>>
    /\ available_tables = <<>>
    /\ payload.error = "No tables found in Fabric SQL Database"

\* C25: the payload a request ends with carries the question it was given and
\* exactly one of error and analysis, and a payload with results has a
\* result_count that is the number of its records.
C25_PayloadShape ==
    pc = "done" =>
        /\ "question" \in DOMAIN payload
        /\ payload.question = question
        /\ ("error" \in DOMAIN payload) # ("analysis" \in DOMAIN payload)
        /\ "results" \in DOMAIN payload =>
              /\ "result_count" \in DOMAIN payload
              /\ payload.result_count = Len(payload.results)

\* a request has ended with more records than its limit
C25_Witness ==
    /\ pc = "done"
    /\ "results" \in DOMAIN payload
    /\ Len(payload.results) > limit
    /\ payload.result_count = Len(payload.results)

\* C26: once DATABASE_COLLATION holds a value other than None, no step of any
\* thread that calls get_database_collation changes it.
C26_CacheNeverChanges ==
    [][DATABASE_COLLATION # None => DATABASE_COLLATION' = DATABASE_COLLATION]_vars

\* a line that is a fence marker, with or without a language tag
IsFenceLine(line) == StartsWith(Strip(line), FENCE)

\* the SQL of a line: the line without a known prefix, the blanks around it and
\* the backticks that close it
SqlOf(line) == RStripSet(Strip(StripPrefixes(Strip(line), prefixes)), {Backtick})

\* C27: for a raw text whose first line opens a code fence, every line of SQL
\* after that line, up to the end of the text or the closing fence line, is
\* present in the text clean_generated_sql returns.
C27_SqlLinesKept ==
    (cleaned_text # None /\ StartsWith(Strip(raw_text), FENCE)) =>
        LET lines == Split(Strip(raw_text), "\n")
        IN  \A k \in 2..Len(lines) :
                (~IsFenceLine(lines[k]) /\ SqlOf(lines[k]) # <<>>)
                    => Contains(cleaned_text, SqlOf(lines[k]))

\* C28: the tables endpoint of the mock app returns the five-table mock catalog
\* when the connector is connected and the empty list with count 0 when it is
\* not, after any sequence of health, tables, analyze and disconnect requests.
C28_CatalogIffConnected ==
    mock_request.endpoint = "get_tables" =>
        /\ fabric_connector.is_connected =>
              /\ mock_response.body.tables = MockCatalog
              /\ mock_response.body.count = 5
        /\ ~fabric_connector.is_connected =>
              /\ mock_response.body.tables = <<>>
              /\ mock_response.body.count = 0

\* the body gives an integer, or a whole number as a float or as digits
WholeNumber(value) ==
    \/ value.kind = "int"
    \/ value.kind = "float" /\ value.n % 10 = 0
    \/ value.kind = "str" /\ IntOfText(value.text).exc = "none"

\* nothing that int() turns into an integer
NotConvertible(value) ==
    \/ value.kind \in {"null", "list", "nan", "inf"}
    \/ value.kind = "str" /\ IntOfText(value.text).exc # "none"

\* C29: an analyze request of the mock app with a question and a table calls
\* execute_query with, and echoes, an integer limit from 1 to 1000000: 10 for
\* a value below 1 or one that cannot be converted, 1000000 for a value above
\* it, the value itself otherwise; a request without question or table is
\* answered 400 and execute_query is not called.
C29_LimitClamped ==
    mock_request.endpoint = "analyze_data" =>
        LET data == mock_request.data
            value == IF data.limit.kind = "missing" THEN Json("int", LimitDefault, <<>>)
                     ELSE data.limit
        IN  IF data.empty \/ Strip(data.question) = <<>> \/ Strip(data.table) = <<>>
            THEN mock_response.status = 400 /\ mock_executed = <<>>
            ELSE /\ mock_response.status = 200
                 /\ Len(mock_executed) = 1
                 /\ mock_executed[1].limit \in 1..LimitCeiling
                 /\ mock_response.body.limit = mock_executed[1].limit
                 /\ NotConvertible(value) => mock_executed[1].limit = LimitDefault
                 /\ WholeNumber(value) =>
                       mock_executed[1].limit =
                           (LET n == IntOf(value).n
                            IN  IF n < 1 THEN LimitDefault
                                ELSE IF n > LimitCeiling THEN LimitCeiling ELSE n)
=============================================================================
